---- MODULE Spec2Model ----
(***************************************************************************)
(* Configuration management of the status line tool: the schema constants, *)
(* ConfigManager (validate, merge with defaults, load / reload / save /    *)
(* ensure_exists with its cache and its file) and the part of              *)
(* StatusLine.generate that chooses the rendering mode.                    *)
(*                                                                         *)
(* Python values are modelled as follows.  A dict is a function whose      *)
(* domain is its key set, a list is a sequence, None / a missing file is   *)
(* the empty sequence and a present value x is <<x>>.  A JSON scalar whose *)
(* type the code inspects (progress_bar_width) carries its Python type:    *)
(* [t |-> "int" | "bool" | "float" | "str", v |-> number].                 *)
(***************************************************************************)
EXTENDS Integers, Sequences, FiniteSets, TLC

VARIABLES
    file,     \* content of config_file: None, or <<document>>
    cache,    \* ConfigManager._config: None, or <<configuration>>
    op,       \* the operation that ran last
    arg,      \* the configuration passed to the last validate / save
    ret,      \* what the last operation returned: None, or <<configuration>>
    exc,      \* the exception the last operation raised, "none" when it returned
    warned,   \* the warnings the last operation logged
    verbose,  \* the mode StatusLine.generate chose last
    _color_override, \* colors._color_override: None, or <<FALSE>> / <<TRUE>>
    environ,  \* os.environ.get("NO_COLOR"): None, or <<value>>
    output,   \* the text the last operation returned: None, or <<text>>
    stdout,   \* the texts written to sys.stdout so far, one per write
    exit_status  \* None while the process runs, <<status>> once it has ended

vars == <<file, cache, op, arg, ret, exc, warned, verbose,
          _color_override, environ, output, stdout, exit_status>>

\* What only main changes.
process == <<stdout, exit_status>>

None == <<>>
Some(x) == <<x>>
Range(s) == {s[i] : i \in DOMAIN s}

----------------------------------------------------------------------------
(* constants.py *)

VALID_FIELD_NAMES ==
    <<"model", "version", "context_remaining", "tokens", "current_dir",
      "git_branch", "cost", "duration", "lines_changed", "output_style">>

DISPLAY_MODE_COMPACT == "compact"
DISPLAY_MODE_VERBOSE == "verbose"
VALID_DISPLAY_MODES == <<DISPLAY_MODE_COMPACT, DISPLAY_MODE_VERBOSE>>

COLOR_WHITE == "white"
VALID_COLORS == <<"cyan", "green", "blue", "magenta", "yellow", "red", "white">>

DEFAULT_COLORS ==
    [current_dir |-> "cyan", git_branch |-> "green", model |-> "blue",
     version |-> "magenta", context_remaining |-> "yellow", cost |-> "red",
     tokens |-> "cyan", duration |-> "magenta", output_style |-> "blue",
     lines_changed |-> "cyan", progress_bar_filled |-> "green",
     progress_bar_empty |-> "white", separator |-> "white"]

\* The glyphs are written by their code points.
DEFAULT_ICONS ==
    [directory |-> "U+1F4C1", git_branch |-> "U+1F33F", model |-> "U+1F916",
     version |-> "U+1F4DF", context |-> "U+1F9E0", cost |-> "U+1F4B0",
     tokens |-> "U+1F4CA", duration |-> "U+231B", style |-> "U+1F3A8"]

MIN_PROGRESS_BAR_WIDTH == 5
MAX_PROGRESS_BAR_WIDTH == 50
DEFAULT_PROGRESS_BAR_WIDTH == 10

DEFAULT_DISPLAY_MODE == DISPLAY_MODE_COMPACT

DEFAULT_VISIBLE_FIELDS ==
    [model |-> TRUE, version |-> TRUE, context_remaining |-> TRUE,
     tokens |-> TRUE, current_dir |-> TRUE, git_branch |-> TRUE,
     cost |-> TRUE, duration |-> FALSE, lines_changed |-> FALSE,
     output_style |-> FALSE]

\* DEFAULT_FIELD_ORDER as src/src/constants/config.py lists it, in the
\* directory that `import constants` does not reach.
DEFAULT_FIELD_ORDER_Package ==
    <<"current_dir", "git_branch", "model", "version", "output_style",
      "python_version", "datetime", "context_remaining", "duration", "tokens",
      "cost", "lines_changed", "cpu_usage", "memory_usage", "battery",
      "python_venv">>

DEFAULT_FIELD_ORDER ==
    <<"current_dir", "git_branch", "model", "version", "context_remaining",
      "tokens", "cost", "duration", "lines_changed", "output_style">>

DEFAULT_SHOW_PROGRESS_BARS == TRUE
DEFAULT_ENABLE_COLORS == TRUE

LINE_IDENTITY == 1
LINE_STATUS == 2
LINE_METRICS == 3

FIELD_LINE_ASSIGNMENT ==
    [current_dir |-> LINE_IDENTITY, git_branch |-> LINE_IDENTITY,
     model |-> LINE_IDENTITY, version |-> LINE_IDENTITY,
     output_style |-> LINE_IDENTITY, context_remaining |-> LINE_STATUS,
     duration |-> LINE_STATUS, cost |-> LINE_METRICS, tokens |-> LINE_METRICS,
     lines_changed |-> LINE_METRICS]

----------------------------------------------------------------------------
(* Python values *)

JInt(n) == [t |-> "int", v |-> n]

\* isinstance(x, int): bool is a subclass of int.
IsInstanceInt(x) == x.t \in {"int", "bool"}

\* d with d[k] = x, the key added when it is missing.
DictSet(d, k, x) == [j \in DOMAIN d \cup {k} |-> IF j = k THEN x ELSE d[j]]

\* [f for f in s if Keep(f)]
RECURSIVE Filter(_, _)
Filter(s, keep) ==
    IF s = <<>> THEN <<>>
    ELSE (IF Head(s) \in keep THEN <<Head(s)>> ELSE <<>>) \o Filter(Tail(s), keep)

----------------------------------------------------------------------------
(* config_manager.py *)

get_default_config ==
    [display_mode |-> DEFAULT_DISPLAY_MODE,
     visible_fields |-> DEFAULT_VISIBLE_FIELDS,
     field_order |-> DEFAULT_FIELD_ORDER,
     icons |-> DEFAULT_ICONS,
     colors |-> DEFAULT_COLORS,
     show_progress_bars |-> DEFAULT_SHOW_PROGRESS_BARS,
     progress_bar_width |-> JInt(DEFAULT_PROGRESS_BAR_WIDTH),
     enable_colors |-> DEFAULT_ENABLE_COLORS]

\* A warning is <<what was invalid, the key it was found under>>.
Warning(kind, key) == <<kind, key>>

\* config.get("display_mode") not in VALID_DISPLAY_MODES
DisplayModeInvalid(config) ==
    \/ "display_mode" \notin DOMAIN config
    \/ config["display_mode"] \notin Range(VALID_DISPLAY_MODES)

ValidateDisplayMode(config) ==
    IF DisplayModeInvalid(config)
    THEN DictSet(config, "display_mode", get_default_config["display_mode"])
    ELSE config

\* WidthInvalid with the upper limit forgotten.
WidthInvalid_NoUpper(width) ==
    \/ ~IsInstanceInt(width)
    \/ width.v < MIN_PROGRESS_BAR_WIDTH

WidthInvalid(width) ==
    \/ ~IsInstanceInt(width)
    \/ width.v < MIN_PROGRESS_BAR_WIDTH
    \/ width.v > MAX_PROGRESS_BAR_WIDTH

ValidateWidth(config) ==
    IF "progress_bar_width" \in DOMAIN config
       /\ WidthInvalid(config["progress_bar_width"])
    THEN DictSet(config, "progress_bar_width",
                 get_default_config["progress_bar_width"])
    ELSE config

\* DefaultColor with the fallback used for every key.
DefaultColor_AlwaysWhite(field) == COLOR_WHITE

\* default_config["colors"].get(field, constants.COLOR_WHITE)
DefaultColor(field) ==
    IF field \in DOMAIN get_default_config["colors"]
    THEN get_default_config["colors"][field]
    ELSE COLOR_WHITE

ValidateColorsMap(colors) ==
    [field \in DOMAIN colors |->
        IF colors[field] \notin Range(VALID_COLORS)
        THEN DefaultColor(field)
        ELSE colors[field]]

\* ValidateColors that also fills in the default entries the map lacks.
ValidateColors_FillDefaults(config) ==
    IF "colors" \in DOMAIN config
    THEN DictSet(config, "colors",
            [f \in DOMAIN config["colors"] \cup DOMAIN get_default_config["colors"] |->
                IF f \in DOMAIN config["colors"]
                THEN ValidateColorsMap(config["colors"])[f]
                ELSE get_default_config["colors"][f]])
    ELSE config

ValidateColors(config) ==
    IF "colors" \in DOMAIN config
    THEN DictSet(config, "colors", ValidateColorsMap(config["colors"]))
    ELSE config

\* for field in VALID_FIELD_NAMES: if field not in order: order.append(field)
RECURSIVE AppendMissing(_, _)
AppendMissing(order, names) ==
    IF names = <<>> THEN order
    ELSE AppendMissing(
            IF Head(names) \in Range(order) THEN order
            ELSE Append(order, Head(names)),
            Tail(names))

\* ValidateOrderList that appends every known name without looking for it.
ValidateOrderList_AppendAll(order) ==
    Filter(order, Range(VALID_FIELD_NAMES)) \o VALID_FIELD_NAMES

ValidateOrderList(order) ==
    LET invalid_fields == Filter(order, Range(order) \ Range(VALID_FIELD_NAMES))
        kept == IF invalid_fields # <<>>
                THEN Filter(order, Range(VALID_FIELD_NAMES))
                ELSE order
    IN  AppendMissing(kept, VALID_FIELD_NAMES)

ValidateFieldOrder(config) ==
    IF "field_order" \in DOMAIN config
    THEN DictSet(config, "field_order", ValidateOrderList(config["field_order"]))
    ELSE config

\* The warnings list of validate, as the set of its entries.
ValidateWarnings(config) ==
    (IF DisplayModeInvalid(config)
     THEN {Warning("display_mode", "display_mode")} ELSE {})
    \cup
    (IF "progress_bar_width" \in DOMAIN config
        /\ WidthInvalid(config["progress_bar_width"])
     THEN {Warning("progress_bar_width", "progress_bar_width")} ELSE {})
    \cup
    (IF "colors" \in DOMAIN config
     THEN {Warning("color", field) : field \in
             {f \in DOMAIN config["colors"] :
                config["colors"][f] \notin Range(VALID_COLORS)}}
     ELSE {})
    \cup
    (IF "field_order" \in DOMAIN config
        /\ Range(config["field_order"]) \ Range(VALID_FIELD_NAMES) # {}
     THEN {Warning("field_order", "field_order")} ELSE {})

validate(config) ==
    ValidateFieldOrder(ValidateColors(ValidateWidth(ValidateDisplayMode(config))))

----------------------------------------------------------------------------
(* Text.  A Python string that may carry escape sequences is the sequence  *)
(* of its pieces: each escape sequence, each glyph of a bar, each            *)
(* separator, each run of other characters.  "" is the empty sequence.     *)

\* sep.join(texts)
RECURSIVE Join(_, _)
Join(sep, texts) ==
    IF texts = <<>> THEN <<>>
    ELSE IF Len(texts) = 1 THEN Head(texts)
    ELSE Head(texts) \o sep \o Join(sep, Tail(texts))

\* glyph * n
Repeat(glyph, n) == [i \in 1..n |-> glyph]

\* 2^k % m
RECURSIVE PowerOfTwoMod(_, _)
PowerOfTwoMod(k, m) == IF k = 0 THEN 1 % m ELSE (2 * PowerOfTwoMod(k - 1, m)) % m

\* The e with 2^e <= n < 2^(e+1), n >= 1.
RECURSIVE Log2Floor(_)
Log2Floor(n) == IF n < 2 THEN 0 ELSE 1 + Log2Floor(n \div 2)

RECURSIVE PowerOfTwo(_)
PowerOfTwo(k) == IF k = 0 THEN 1 ELSE 2 * PowerOfTwo(k - 1)

\* f"{cents / 100:.2f}" of an amount that is a whole number of cents
TwoDecimals(cents) ==
    ToString(cents \div 100) \o "." \o ToString((cents % 100) \div 10)
        \o ToString(cents % 10)

----------------------------------------------------------------------------
(* colors.py *)

COLORS ==
    [cyan |-> "ESC[96m", green |-> "ESC[92m", blue |-> "ESC[94m",
     magenta |-> "ESC[95m", yellow |-> "ESC[93m", red |-> "ESC[91m",
     white |-> "ESC[97m", reset |-> "ESC[0m"]

\* is_color_enabled() when colors._color_override is override and
\* os.environ.get("NO_COLOR") is no_color
is_color_enabled_IgnoreEnv(override, no_color) ==
    IF override # None THEN override[1] ELSE TRUE

is_color_enabled(override, no_color) ==
    IF override # None THEN override[1] ELSE no_color = None

\* color_name.lower(), on the names that occur
lower(color_name) ==
    CASE color_name = "CYAN" -> "cyan"
      [] color_name = "Red" -> "red"
      [] color_name = "RESET" -> "reset"
      [] OTHER -> color_name

\* COLORS.get(color_name.lower(), "")
ColorCode(color_name) ==
    IF lower(color_name) \in DOMAIN COLORS THEN COLORS[lower(color_name)] ELSE ""

\* colorize(text, color_name) when is_color_enabled() is enabled
colorize(text, color_name, enabled) ==
    IF ~enabled THEN text
    ELSE LET color_code == ColorCode(color_name)
             reset_code == COLORS["reset"]
         IN  IF color_code # "" THEN <<color_code>> \o text \o <<reset_code>>
             ELSE text

----------------------------------------------------------------------------
(* display_formatter.py: the module-level formatting functions.  data maps *)
(* a name to its value: a text for the string fields, an integer for the   *)
(* numeric ones (cost and cost_per_hour count cents).                      *)

NumericNames ==
    {"context_remaining", "tokens", "cost", "duration", "lines_changed",
     "cost_per_hour", "tokens_per_minute"}

\* bool(data.get(name))
Truthy(data, name) ==
    /\ name \in DOMAIN data
    /\ IF name \in NumericNames THEN data[name] # 0 ELSE data[name] # <<>>

\* d.get(key, default)
Get(d, key, default) == IF key \in DOMAIN d THEN d[key] ELSE default

\* int((percentage / 100) * width) in binary floating point, for
\* 0 <= percentage <= 100 and width >= 1.  percentage / 100 is rounded to
\* the nearest double, the product is rounded again and int() truncates:
\* the result is below the exact quotient only when percentage * width is
\* a multiple of 100 and both roundings went down.
FilledCount(percentage, width) ==
    LET N == (percentage * width) \div 100
        j == CHOOSE i \in 1..7 :
                 /\ percentage * PowerOfTwo(i) >= 100
                 /\ \A h \in 1..(i - 1) : percentage * PowerOfTwo(h) < 100
        rem == (percentage * PowerOfTwoMod(52 + j, 100)) % 100
        e == Log2Floor(N)
        half == IF PowerOfTwo(e) = N THEN e + j - 1 ELSE e + j
    IN  IF (percentage * width) % 100 # 0 \/ percentage % 25 = 0 THEN N
        ELSE IF rem > 50 THEN N
        ELSE IF 2 * width * rem <= 100 * PowerOfTwo(half) THEN N
        ELSE N - 1

format_progress_bar(percentage, width, config, enabled) ==
    IF ~Get(config, "show_progress_bars", TRUE) THEN <<>>
    ELSE LET filled_count == FilledCount(percentage, width)
             empty_count == width - filled_count
             filled_color == Get(config["colors"], "progress_bar_filled", "green")
             empty_color == Get(config["colors"], "progress_bar_empty", "white")
             separator_color == Get(config["colors"], "separator", "white")
             filled == colorize(Repeat("=", filled_count), filled_color, enabled)
             empty == colorize(Repeat("-", empty_count), empty_color, enabled)
             bracket_open == colorize(<<"[">>, separator_color, enabled)
             bracket_close == colorize(<<"]">>, separator_color, enabled)
         IN  bracket_open \o filled \o empty \o bracket_close

\* format_field showing the icon only next to a value that carries colour
format_field_IconWhenColored(field_name, value, config, enabled) ==
    IF value = <<>> THEN <<>>
    ELSE LET icon == Get(config["icons"], field_name, "")
             color == Get(config["colors"], field_name, "white")
             colored_value == colorize(value, color, enabled)
         IN  IF icon # "" /\ colored_value # value
             THEN <<icon, " ">> \o colored_value
             ELSE colored_value

format_field(field_name, value, config, enabled) ==
    IF value = <<>> THEN <<>>
    ELSE LET icon == Get(config["icons"], field_name, "")
             color == Get(config["colors"], field_name, "white")
             colored_value == colorize(value, color, enabled)
         IN  IF icon # "" THEN <<icon, " ">> \o colored_value
             ELSE colored_value

format_field_verbose(field_name, value, label, config, enabled) ==
    IF value = <<>> THEN <<>>
    ELSE LET icon == Get(config["icons"], field_name, "")
             color == Get(config["colors"], field_name, "white")
             label_colored ==
                 colorize(<<label>>, Get(config["colors"], "separator", "white"),
                          enabled)
             value_colored == colorize(value, color, enabled)
         IN  IF icon # "" THEN <<icon, " ">> \o label_colored \o <<" ">> \o value_colored
             ELSE label_colored \o <<" ">> \o value_colored

\* f"{duration_ms / 1000:.1f}" for 1000 <= duration_ms < 60000, as the
\* number of tenths shown.  The quotient is the double nearest to the exact
\* value and the format rounds that double, half to even: when the exact
\* value lies half way between two tenths, the side the double fell on
\* decides.
SecondsTenths(duration_ms) ==
    LET tenths == duration_ms \div 100
        rest == duration_ms % 100
        k == 52 - Log2Floor(duration_ms \div 1000)
        rem == (duration_ms * PowerOfTwoMod(k, 1000)) % 1000
    IN  IF rest < 50 THEN tenths
        ELSE IF rest > 50 THEN tenths + 1
        ELSE IF rem = 0 THEN (IF tenths % 2 = 0 THEN tenths ELSE tenths + 1)
        ELSE IF rem < 500 THEN tenths
        ELSE tenths + 1

OneDecimal(tenths) == ToString(tenths \div 10) \o "." \o ToString(tenths % 10)

format_duration(duration_ms) ==
    IF duration_ms < 1000 THEN <<ToString(duration_ms), "ms">>
    ELSE IF duration_ms < 60000
    THEN <<OneDecimal(SecondsTenths(duration_ms)), "s">>
    ELSE LET minutes == duration_ms \div 60000
             hours == minutes \div 60
         IN  IF hours > 0
             THEN LET remaining_minutes == minutes % 60
                  IN  <<ToString(hours), "h ", ToString(remaining_minutes), "m">>
             ELSE <<ToString(minutes), "m">>

\* f"${data['cost']:.2f}", with the rate when data has one
CostStr(data) ==
    <<"$", TwoDecimals(data["cost"])>>
    \o (IF "cost_per_hour" \in DOMAIN data
        THEN <<" ($", TwoDecimals(data["cost_per_hour"]), "/h)">> ELSE <<>>)

\* f"{data['tokens']} tok", with the rate when data has one
TokensStr(data) ==
    <<ToString(data["tokens"]), " tok">>
    \o (IF "tokens_per_minute" \in DOMAIN data
        THEN <<" (", ToString(data["tokens_per_minute"]), " tpm)">> ELSE <<>>)

\* f"{data['lines_changed']} lines"
LinesStr(data) == <<ToString(data["lines_changed"]), " lines">>

\* The piece an icon makes in an f-string: none when it is "".
Piece(s) == IF s = "" THEN <<>> ELSE <<s>>

\* The names the if / elif chain of format_compact and format_verbose formats.
FormatterNames ==
    {"current_dir", "git_branch", "model", "version", "output_style",
     "context_remaining", "cost", "tokens", "duration", "lines_changed"}

\* not (not visible.get(field_name) or not data.get(field_name))
Visible_MissingIsTrue(config, field_name) ==
    Get(config["visible_fields"], field_name, TRUE)

Visible(config, field_name) ==
    Get(config["visible_fields"], field_name, FALSE)

\* The names of field_order the loop formats, in order.
Kept(data, config) ==
    SelectSeq(Get(config, "field_order", <<>>),
              LAMBDA field_name :
                  /\ Visible(config, field_name)
                  /\ Truthy(data, field_name)
                  /\ field_name \in FormatterNames)

compact_line_assignment ==
    [current_dir |-> 1, git_branch |-> 1, model |-> 1, version |-> 1,
     output_style |-> 1, context_remaining |-> 2, cost |-> 3, tokens |-> 3,
     duration |-> 3, lines_changed |-> 3]

CompactFormatted(field_name, data, config, enabled) ==
    CASE field_name = "current_dir" ->
           format_field("directory", data["current_dir"], config, enabled)
      [] field_name = "git_branch" ->
           format_field("git_branch", data["git_branch"], config, enabled)
      [] field_name = "model" ->
           format_field("model", data["model"], config, enabled)
      [] field_name = "version" ->
           format_field("version", data["version"], config, enabled)
      [] field_name = "output_style" ->
           format_field("style", data["output_style"], config, enabled)
      [] field_name = "context_remaining" ->
           LET percentage == data["context_remaining"]
               progress_bar ==
                   format_progress_bar(percentage, config["progress_bar_width"].v,
                                       config, enabled)
               context_text == <<"Context Remaining: ", ToString(percentage), "%">>
               context_colored ==
                   colorize(context_text, Get(config["colors"], "context", "yellow"),
                            enabled)
           IN  Piece(Get(config["icons"], "context", "U+1F9E0")) \o <<" ">>
                   \o context_colored \o <<" ">> \o progress_bar
      [] field_name = "cost" -> format_field("cost", CostStr(data), config, enabled)
      [] field_name = "tokens" ->
           format_field("tokens", TokensStr(data), config, enabled)
      [] field_name = "duration" ->
           format_field("duration", format_duration(data["duration"]), config,
                        enabled)
      [] field_name = "lines_changed" ->
           colorize(LinesStr(data), Get(config["colors"], "tokens", "cyan"), enabled)

\* line1_fields, line2_fields, line3_fields of format_compact, for n = 1, 2, 3
CompactLineFields(n, data, config, enabled) ==
    LET names == SelectSeq(Kept(data, config),
                           LAMBDA field_name :
                               IF n = 3
                               THEN Get(compact_line_assignment, field_name, 3)
                                        \notin {1, 2}
                               ELSE Get(compact_line_assignment, field_name, 3) = n)
    IN  [i \in 1..Len(names) |-> CompactFormatted(names[i], data, config, enabled)]

\* lines: the non-empty groups, each joined by the separator
JoinedLines_MetricsFirst(line1_fields, line2_fields, line3_fields, separator) ==
    (IF line3_fields # <<>> THEN <<Join(separator, line3_fields)>> ELSE <<>>)
    \o (IF line2_fields # <<>> THEN <<Join(separator, line2_fields)>> ELSE <<>>)
    \o (IF line1_fields # <<>> THEN <<Join(separator, line1_fields)>> ELSE <<>>)

JoinedLines(line1_fields, line2_fields, line3_fields, separator) ==
    (IF line1_fields # <<>> THEN <<Join(separator, line1_fields)>> ELSE <<>>)
    \o (IF line2_fields # <<>> THEN <<Join(separator, line2_fields)>> ELSE <<>>)
    \o (IF line3_fields # <<>> THEN <<Join(separator, line3_fields)>> ELSE <<>>)

format_compact(data, config, enabled) ==
    LET separator ==
            colorize(<<"  ">>, Get(config["colors"], "separator", "white"), enabled)
        lines == JoinedLines(CompactLineFields(1, data, config, enabled),
                             CompactLineFields(2, data, config, enabled),
                             CompactLineFields(3, data, config, enabled),
                             separator)
    IN  Join(<<"\n">>, lines)

labels ==
    [current_dir |-> "Directory:", git_branch |-> "Git branch:",
     model |-> "Model:", version |-> "Version:", output_style |-> "Style:",
     context_remaining |-> "Context remaining:", duration |-> "Duration:",
     cost |-> "Cost:", tokens |-> "Tokens:", lines_changed |-> "Lines changed:"]

verbose_line_assignment ==
    [current_dir |-> 1, git_branch |-> 1, model |-> 1, version |-> 1,
     output_style |-> 1, context_remaining |-> 2, duration |-> 2, cost |-> 3,
     tokens |-> 3, lines_changed |-> 3]

VerboseFormatted(field_name, data, config, enabled) ==
    LET label == Get(labels, field_name, "")
    IN  CASE field_name = "current_dir" ->
               format_field_verbose("directory", data["current_dir"], label,
                                    config, enabled)
          [] field_name = "git_branch" ->
               format_field_verbose("git_branch", data["git_branch"], label,
                                    config, enabled)
          [] field_name = "model" ->
               format_field_verbose("model", data["model"], label, config, enabled)
          [] field_name = "version" ->
               format_field_verbose("version", data["version"], label, config,
                                    enabled)
          [] field_name = "output_style" ->
               format_field_verbose("style", data["output_style"], label, config,
                                    enabled)
          [] field_name = "context_remaining" ->
               LET percentage == data["context_remaining"]
                   progress_bar ==
                       format_progress_bar(percentage,
                                           config["progress_bar_width"].v, config,
                                           enabled)
                   base_formatted ==
                       format_field_verbose("context",
                                            <<ToString(percentage), "%">>, label,
                                            config, enabled)
               IN  base_formatted \o <<" ">> \o progress_bar
          [] field_name = "duration" ->
               format_field_verbose("duration", format_duration(data["duration"]),
                                    label, config, enabled)
          [] field_name = "cost" ->
               format_field_verbose("cost", CostStr(data), label, config, enabled)
          [] field_name = "tokens" ->
               format_field_verbose("tokens", TokensStr(data), label, config,
                                    enabled)
          [] field_name = "lines_changed" ->
               format_field_verbose("tokens", LinesStr(data), label, config,
                                    enabled)

VerboseLineFields(n, data, config, enabled) ==
    LET names == SelectSeq(Kept(data, config),
                           LAMBDA field_name :
                               IF n = 3
                               THEN Get(verbose_line_assignment, field_name, 3)
                                        \notin {1, 2}
                               ELSE Get(verbose_line_assignment, field_name, 3) = n)
    IN  [i \in 1..Len(names) |-> VerboseFormatted(names[i], data, config, enabled)]

format_verbose(data, config, enabled) ==
    LET separator ==
            colorize(<<"  ">>, Get(config["colors"], "separator", "white"), enabled)
        lines == JoinedLines(VerboseLineFields(1, data, config, enabled),
                             VerboseLineFields(2, data, config, enabled),
                             VerboseLineFields(3, data, config, enabled),
                             separator)
    IN  Join(<<"\n">>, lines)

----------------------------------------------------------------------------
(* fields.py.  A field object is the record of its attributes; kind names  *)
(* its class.                                                              *)

FIELD_LABELS ==
    [current_dir |-> "Directory:", git_branch |-> "Git branch:",
     model |-> "Model:", version |-> "Version:", output_style |-> "Style:",
     context_remaining |-> "Context remaining:", duration |-> "Duration:",
     cost |-> "Cost:", tokens |-> "Tokens:", lines_changed |-> "Lines changed:"]

\* Field.__init__: color_key or icon_key
NewField(kind, name, icon_key, line, color_key, rate_field) ==
    [kind |-> kind, name |-> name, icon_key |-> icon_key, line |-> line,
     label |-> FIELD_LABELS[name],
     color_key |-> IF color_key # None THEN color_key[1] ELSE icon_key,
     rate_field |-> rate_field]

create_field_registry ==
    [current_dir |->
         NewField("SimpleField", "current_dir", "directory", LINE_IDENTITY, None, None),
     git_branch |->
         NewField("SimpleField", "git_branch", "git_branch", LINE_IDENTITY, None, None),
     model |-> NewField("SimpleField", "model", "model", LINE_IDENTITY, None, None),
     version |->
         NewField("SimpleField", "version", "version", LINE_IDENTITY, None, None),
     output_style |->
         NewField("SimpleField", "output_style", "style", LINE_IDENTITY, None, None),
     context_remaining |->
         NewField("ProgressField", "context_remaining", "context", LINE_STATUS, None,
                  None),
     duration |->
         NewField("DurationField", "duration", "duration", LINE_STATUS, None, None),
     cost |->
         NewField("MetricField", "cost", "cost", LINE_METRICS, None,
                  Some("cost_per_hour")),
     tokens |->
         NewField("MetricField", "tokens", "tokens", LINE_METRICS, None,
                  Some("tokens_per_minute")),
     lines_changed |->
         NewField("MetricField", "lines_changed", "tokens", LINE_METRICS,
                  Some("lines_changed"), None)]

\* SimpleField.format_value
SimpleField_format_value(self, data) ==
    IF Truthy(data, self.name) THEN data[self.name] ELSE <<>>

\* ProgressField.format_value
ProgressField_format_value(self, data) ==
    IF self.name \notin DOMAIN data THEN <<>>
    ELSE <<ToString(data[self.name]), "%">>

\* MetricField.format_value
MetricField_format_value(self, data) ==
    IF self.name \notin DOMAIN data THEN <<>>
    ELSE LET value == data[self.name]
             formatted ==
                 CASE self.name = "cost" -> <<"$", TwoDecimals(value)>>
                   [] self.name = "tokens" -> <<ToString(value), " tok">>
                   [] self.name = "lines_changed" -> <<ToString(value), " lines">>
                   [] OTHER -> <<ToString(value)>>
         IN  IF self.rate_field # None /\ self.rate_field[1] \in DOMAIN data
             THEN LET rate_value == data[self.rate_field[1]]
                  IN  CASE self.name = "cost" ->
                             formatted \o <<" ($", TwoDecimals(rate_value), "/h)">>
                        [] self.name = "tokens" ->
                             formatted \o <<" (", ToString(rate_value), " tpm)">>
                        [] OTHER -> formatted
             ELSE formatted

\* DurationField.format_value
DurationField_format_value_Floor(self, data) ==
    IF self.name \notin DOMAIN data THEN <<>>
    ELSE LET duration_ms == data[self.name]
         IN  IF duration_ms < 1000 THEN <<ToString(duration_ms), "ms">>
             ELSE IF duration_ms < 60000
             THEN <<OneDecimal(duration_ms \div 100), "s">>
             ELSE LET minutes == duration_ms \div 60000
                      hours == minutes \div 60
                  IN  IF hours > 0
                      THEN <<ToString(hours), "h ", ToString(minutes % 60), "m">>
                      ELSE <<ToString(minutes), "m">>

DurationField_format_value(self, data) ==
    IF self.name \notin DOMAIN data THEN <<>>
    ELSE LET duration_ms == data[self.name]
         IN  IF duration_ms < 1000 THEN <<ToString(duration_ms), "ms">>
             ELSE IF duration_ms < 60000
             THEN <<OneDecimal(SecondsTenths(duration_ms)), "s">>
             ELSE LET minutes == duration_ms \div 60000
                      hours == minutes \div 60
                  IN  IF hours > 0
                      THEN LET remaining_minutes == minutes % 60
                           IN  <<ToString(hours), "h ",
                                 ToString(remaining_minutes), "m">>
                      ELSE <<ToString(minutes), "m">>

\* self.format_value(data, config), by the class of self
format_value(self, data) ==
    CASE self.kind = "SimpleField" -> SimpleField_format_value(self, data)
      [] self.kind = "ProgressField" -> ProgressField_format_value(self, data)
      [] self.kind = "MetricField" -> MetricField_format_value(self, data)
      [] self.kind = "DurationField" -> DurationField_format_value(self, data)

\* Field.format_compact
Field_format_compact(self, data, config, enabled) ==
    LET value == format_value(self, data)
    IN  IF value = <<>> THEN <<>>
        ELSE LET icon == Get(config["icons"], self.icon_key, "")
                 color == Get(config["colors"], self.color_key, COLOR_WHITE)
                 colored_value == colorize(value, color, enabled)
             IN  IF icon # "" THEN <<icon, " ">> \o colored_value
                 ELSE colored_value

\* Field.format_verbose
Field_format_verbose(self, data, config, enabled) ==
    LET value == format_value(self, data)
    IN  IF value = <<>> THEN <<>>
        ELSE LET icon == Get(config["icons"], self.icon_key, "")
                 color == Get(config["colors"], self.color_key, COLOR_WHITE)
                 separator_color == Get(config["colors"], "separator", COLOR_WHITE)
                 label_colored == colorize(<<self.label>>, separator_color, enabled)
                 value_colored == colorize(value, color, enabled)
             IN  IF icon # ""
                 THEN <<icon, " ">> \o label_colored \o <<" ">> \o value_colored
                 ELSE label_colored \o <<" ">> \o value_colored

\* ProgressField._format_progress_bar
ProgressField_format_progress_bar(percentage, width, config, enabled) ==
    IF ~Get(config, "show_progress_bars", TRUE) THEN <<>>
    ELSE LET filled_count == FilledCount(percentage, width)
             empty_count == width - filled_count
             filled_color == Get(config["colors"], "progress_bar_filled", "green")
             empty_color == Get(config["colors"], "progress_bar_empty", COLOR_WHITE)
             separator_color == Get(config["colors"], "separator", COLOR_WHITE)
             filled == colorize(Repeat("=", filled_count), filled_color, enabled)
             empty == colorize(Repeat("-", empty_count), empty_color, enabled)
             bracket_open == colorize(<<"[">>, separator_color, enabled)
             bracket_close == colorize(<<"]">>, separator_color, enabled)
         IN  bracket_open \o filled \o empty \o bracket_close

\* ProgressField.format_compact
ProgressField_format_compact(self, data, config, enabled) ==
    IF self.name \notin DOMAIN data THEN <<>>
    ELSE LET percentage == data[self.name]
             icon == Get(config["icons"], self.icon_key, "")
             color == Get(config["colors"], self.color_key, "yellow")
             label_text ==
                 IF self.label = "Context remaining:" THEN "Context Remaining:"
                 ELSE self.label
             context_text == <<label_text, " ", ToString(percentage), "%">>
             context_colored == colorize(context_text, color, enabled)
             progress_bar ==
                 ProgressField_format_progress_bar(
                     percentage, config["progress_bar_width"].v, config, enabled)
         IN  Piece(icon) \o <<" ">> \o context_colored \o <<" ">> \o progress_bar

\* ProgressField.format_verbose
ProgressField_format_verbose(self, data, config, enabled) ==
    IF self.name \notin DOMAIN data THEN <<>>
    ELSE LET percentage == data[self.name]
             base_formatted == Field_format_verbose(self, data, config, enabled)
             progress_bar ==
                 ProgressField_format_progress_bar(
                     percentage, config["progress_bar_width"].v, config, enabled)
         IN  base_formatted \o <<" ">> \o progress_bar

\* Field.format
Field_format(self, data, config, is_verbose_mode, enabled) ==
    IF is_verbose_mode
    THEN (IF self.kind = "ProgressField"
          THEN ProgressField_format_verbose(self, data, config, enabled)
          ELSE Field_format_verbose(self, data, config, enabled))
    ELSE (IF self.kind = "ProgressField"
          THEN ProgressField_format_compact(self, data, config, enabled)
          ELSE Field_format_compact(self, data, config, enabled))

----------------------------------------------------------------------------
(* The configurations validate is applied to. *)

MaxOrderLen == 2

Absent == <<>>
Present(S) == {<<x>> : x \in S}
Optional(S) == {Absent} \cup Present(S)

\* The dict that holds the key k exactly when opt[k] is present.
MakeConfig(opt) ==
    [k \in {j \in DOMAIN opt : opt[j] # Absent} |-> opt[k][1]]

SeqsUpTo(S, n) == UNION {[1..m -> S] : m \in 0..n}
MapsOver(K, V) == UNION {[D -> V] : D \in SUBSET K}

InputModes == {"compact", "verbose", "large", "bogus"}
InputWidths ==
    {JInt(4), JInt(5), JInt(50), JInt(51),
     [t |-> "bool", v |-> 1], [t |-> "float", v |-> 20], [t |-> "str", v |-> 20]}
InputColorMaps == MapsOver({"model", "custom"}, {"red", "purple"})
InputOrders == SeqsUpTo({"model", "cost", "bogus"}, MaxOrderLen)
InputVisible == {[model |-> FALSE]}

ValidateInputs ==
    {get_default_config} \cup
    {MakeConfig([display_mode |-> dm, progress_bar_width |-> w, colors |-> c,
                 field_order |-> fo, visible_fields |-> vf]) :
        dm \in Optional(InputModes), w \in Optional(InputWidths),
        c \in Optional(InputColorMaps), fo \in Optional(InputOrders),
        vf \in Optional(InputVisible)}

----------------------------------------------------------------------------
(* validate as an operation: validate_config(arg), and a second call on    *)
(* what the first returned; arg stays the configuration first passed in.   *)

InitValidate ==
    /\ file = None
    /\ cache = None
    /\ op = "init"
    /\ arg \in Present(ValidateInputs)
    /\ ret = None
    /\ exc = "none"
    /\ warned = {}
    /\ verbose = FALSE
    /\ _color_override = None
    /\ environ = None
    /\ output = None
    /\ stdout = <<>>
    /\ exit_status = None

Validate ==
    /\ op = "init"
    /\ op' = "validate"
    /\ ret' = Some(validate(arg[1]))
    /\ warned' = ValidateWarnings(arg[1])
    /\ UNCHANGED <<process, file, cache, arg, exc, verbose, _color_override, environ, output>>

Revalidate ==
    /\ op = "validate"
    /\ op' = "revalidate"
    /\ ret' = Some(validate(ret[1]))
    /\ warned' = ValidateWarnings(ret[1])
    /\ UNCHANGED <<process, file, cache, arg, exc, verbose, _color_override, environ, output>>

NextValidate == Validate \/ Revalidate

SpecValidate == InitValidate /\ [][NextValidate]_vars

----------------------------------------------------------------------------
(* The configuration file.  A document is the text of the file:            *)
(*   json  what json.load makes of it: "invalid" (JSONDecodeError), or the *)
(*         type of its top-level value                                     *)
(*   obj   for an object, its well-typed members                           *)
(*   bad   for an object, the members whose value has a type the code does *)
(*         not expect, as <<key, JSON type>>; the values are "x" for a     *)
(*         string under a dict-valued key, "ab" for a string under         *)
(*         field_order, [] for an array, {} for an object                  *)

EmptyDict == [k \in {} |-> TRUE]

\* json.dump(config, f, indent=2)
Dump(config) == [json |-> "object", obj |-> config, bad |-> {}]

\* The keys whose default value is a dict.
DictKeys == {"visible_fields", "icons", "colors"}

StringAsList == <<"a", "b">>

\* _load_from_file with every sub-object replaced by the default's when it
\* lacks a sub-key.
MergeDefaults_WholeSubObject(config) ==
    [key \in DOMAIN config \cup DOMAIN get_default_config |->
        IF key \notin DOMAIN config THEN get_default_config[key]
        ELSE IF key \in DictKeys
                /\ ~(DOMAIN get_default_config[key] \subseteq DOMAIN config[key])
             THEN get_default_config[key]
             ELSE config[key]]

\* The merge loop of _load_from_file on a well-typed object.
MergeDefaults(config) ==
    [key \in DOMAIN config \cup DOMAIN get_default_config |->
        IF key \notin DOMAIN config THEN get_default_config[key]
        ELSE IF key \in DictKeys
             THEN [subkey \in DOMAIN config[key] \cup DOMAIN get_default_config[key] |->
                      IF subkey \in DOMAIN config[key]
                      THEN config[key][subkey]
                      ELSE get_default_config[key][subkey]]
             ELSE config[key]]

BadKeys(doc) == {b[1] : b \in doc.bad}
BadType(doc, key) == (CHOOSE b \in doc.bad : b[1] = key)[2]

\* The object the try block of _load_from_file works on once json.load
\* returned: a string under field_order is iterated as its characters.
LoadedObject(doc) ==
    IF "field_order" \in BadKeys(doc) /\ BadType(doc, "field_order") = "string"
    THEN DictSet(doc.obj, "field_order", StringAsList)
    ELSE doc.obj

\* The exception the try block of _load_from_file ends with, "none" when it
\* returns.  json.JSONDecodeError is caught (the default configuration is
\* returned); TypeError and AttributeError are not.
LoadException(doc) ==
    IF doc.json = "invalid" THEN "none"
    ELSE IF doc.json # "object" THEN "TypeError"
    ELSE IF BadKeys(doc) \cap DictKeys # {} THEN "TypeError"
    ELSE IF "field_order" \notin BadKeys(doc) THEN "none"
    ELSE IF BadType(doc, "field_order") = "string" THEN "none"
    ELSE IF BadType(doc, "field_order") = "object" THEN "AttributeError"
    ELSE "TypeError"

\* What _load_from_file returns from an existing file when it returns.
LoadedConfig(doc) ==
    IF doc.json = "invalid" THEN get_default_config
    ELSE validate(MergeDefaults(LoadedObject(doc)))

LoadedWarnings(doc) ==
    IF doc.json = "invalid" THEN {Warning("invalid_json", "config_file")}
    ELSE ValidateWarnings(MergeDefaults(LoadedObject(doc)))

\* ensure_exists that saves the default configuration over an existing file.
FileAfterEnsure_Overwrite(f) == Some(Dump(validate(get_default_config)))

\* ensure_exists: the file afterwards, and the cache afterwards (save sets it).
FileAfterEnsure(f) ==
    IF f = None THEN Some(Dump(validate(get_default_config))) ELSE f

CacheAfterEnsure(f, c) ==
    IF f = None THEN Some(validate(get_default_config)) ELSE c

\* load(force_reload): the state it leaves and what it returns.
LoadResult(force_reload) ==
    IF force_reload \/ cache = None
    THEN LET f1 == FileAfterEnsure(file)
             c1 == CacheAfterEnsure(file, cache)
             e  == LoadException(f1[1])
         IN  IF e = "none"
             THEN [file |-> f1, cache |-> Some(LoadedConfig(f1[1])),
                   ret |-> Some(LoadedConfig(f1[1])), exc |-> e,
                   warned |-> LoadedWarnings(f1[1])]
             ELSE [file |-> f1, cache |-> c1, ret |-> None, exc |-> e,
                   warned |-> {}]
    ELSE [file |-> file, cache |-> cache, ret |-> cache, exc |-> "none",
          warned |-> {}]

\* _is_verbose(display_mode)
is_verbose(display_mode) == display_mode \in {"large", "verbose"}

\* config.get("display_mode", "compact")
GetDisplayMode(config) ==
    IF "display_mode" \in DOMAIN config THEN config["display_mode"] ELSE "compact"

----------------------------------------------------------------------------
(* git_utils.py.  What the files and subprocesses of the workspace answer  *)
(* is the record git:                                                      *)
(*   head       what reading .git/HEAD gives: "absent" (no .git            *)
(*              directory), "ref" (a branch), "detached" (a commit hash),  *)
(*              "OSError" (the file cannot be read) or                     *)
(*              "UnicodeDecodeError" (its bytes are no text)               *)
(*   branch     the branch name that HEAD holds and that                   *)
(*              `git rev-parse --abbrev-ref HEAD` prints                   *)
(*   run        how subprocess.run of git ends: "ok" (status 0),           *)
(*              "nonzero", or the exception it raises                      *)
(*   is_dirty   what _is_git_dirty returns: None, or TRUE or FALSE         *)
(*   ahead, behind   what _get_ahead_behind returns                        *)
(*   gh         how subprocess.run of gh ends, as for run                  *)
(*   pr         the document `gh pr view` prints, as [json, obj]           *)
(* The glyphs are written by their code points.                            *)

\* The names that git_utils.py reads from the module constants and that
\* constants.py defines.
ConstantsAttributes ==
    {"GIT_COMMAND_TIMEOUT_SECONDS", "GIT_HEAD_REF_PREFIX",
     "GIT_DETACHED_HEAD_HASH_LENGTH"}

RunOutcomes ==
    {"ok", "nonzero", "TimeoutExpired", "FileNotFoundError", "PermissionError"}

\* The exceptions of subprocess.run that
\* `except (subprocess.SubprocessError, FileNotFoundError)` catches.
CaughtRunErrors == {"TimeoutExpired", "FileNotFoundError"}

\* The exception a collector ends with when subprocess.run ended with
\* outcome, "none" when it goes on or returns.
RunException(outcome) ==
    IF outcome \in {"ok", "nonzero"} \cup CaughtRunErrors THEN "none" ELSE outcome

\* get_git_branch: the exception it ends with
get_git_branch_exception(git) ==
    IF git.head = "UnicodeDecodeError" THEN "UnicodeDecodeError"
    ELSE IF git.head \in {"ref", "detached"} THEN "none"
    ELSE RunException(git.run)

\* get_git_branch: what it returns
get_git_branch(git) ==
    IF git.head = "ref" THEN git.branch
    ELSE IF git.head = "detached" THEN <<"0a1b2c3">>
    ELSE IF git.run = "ok" THEN git.branch
    ELSE <<>>

\* get_git_status: the exception it ends with
get_git_status_exception(git) == RunException(git.run)

\* get_git_status: what it returns
get_git_status(git, enabled) ==
    IF git.run # "ok" THEN <<>>
    ELSE LET indicators ==
                 (IF git.is_dirty = None THEN <<>>
                  ELSE IF git.is_dirty[1]
                  THEN <<colorize(<<"U+2605">>, "yellow", enabled)>>
                  ELSE <<colorize(<<"U+2713">>, "green", enabled)>>)
                 \o (IF git.behind > 0
                     THEN <<colorize(<<"U+2193", ToString(git.behind)>>, "magenta",
                                     enabled)>>
                     ELSE <<>>)
                 \o (IF git.ahead > 0
                     THEN <<colorize(<<"U+2191", ToString(git.ahead)>>, "cyan",
                                     enabled)>>
                     ELSE <<>>)
         IN  Join(<<" ">>, indicators)

\* get_pr_status: the colour the loop over statusCheckRollup ends with
StatusCheckColor(status_checks) ==
    LET decisive == SelectSeq(status_checks,
                              LAMBDA status :
                                  status \in {"FAILURE", "ERROR", "CANCELLED",
                                              "TIMED_OUT", "PENDING", "IN_PROGRESS"})
    IN  IF decisive = <<>> THEN "green"
        ELSE IF Head(decisive) \in {"PENDING", "IN_PROGRESS"} THEN "yellow"
        ELSE "red"

\* get_pr_status: the exception it ends with.  The timeout argument of
\* subprocess.run is an attribute of constants, looked up inside the try
\* block; pr_data.get needs a dict.
get_pr_status_exception(git) ==
    IF "GH_COMMAND_TIMEOUT_SECONDS" \notin ConstantsAttributes THEN "AttributeError"
    ELSE IF RunException(git.gh) # "none" THEN RunException(git.gh)
    ELSE IF git.gh = "ok" /\ git.pr.json \notin {"invalid", "object"}
    THEN "AttributeError"
    ELSE "none"

\* get_pr_status: what it returns
get_pr_status(git, enabled) ==
    IF git.gh # "ok" \/ git.pr.json = "invalid" THEN <<>>
    ELSE LET pr_data == git.pr.obj
             pr_number == Get(pr_data, "number", 0)
             is_draft == Get(pr_data, "isDraft", FALSE)
             review_decision == Get(pr_data, "reviewDecision", "")
             status_checks == Get(pr_data, "statusCheckRollup", <<>>)
             color == IF is_draft THEN "yellow"
                      ELSE IF review_decision = "CHANGES_REQUESTED" THEN "red"
                      ELSE StatusCheckColor(status_checks)
         IN  IF pr_number = 0 THEN <<>>
             ELSE colorize(<<"PR#", ToString(pr_number)>>, color, enabled)

----------------------------------------------------------------------------
(* data_extractor.py.  json_data is the parsed input document: a dict of   *)
(* dicts whose strings are texts, whose cost is in cents and whose other   *)
(* numbers are integers.  A path is the sequence of its components, the    *)
(* last one "" when it ends with a slash.  host holds what the system and  *)
(* interpreter collectors return and the clock.                            *)

\* data.update(more)
Update(data, more) ==
    [k \in DOMAIN data \cup DOMAIN more |->
        IF k \in DOMAIN more THEN more[k] ELSE data[k]]

\* os.path.basename(cwd) or cwd
BasenameOrPath(cwd) ==
    IF cwd # <<>> /\ cwd[Len(cwd)] # "" THEN <<cwd[Len(cwd)]>>
    ELSE Join(<<"/">>, [i \in 1..Len(cwd) |-> <<cwd[i]>>])

\* _extract_model
extract_model(json_data) ==
    IF "model" \notin DOMAIN json_data THEN EmptyDict
    ELSE IF "id" \in DOMAIN json_data["model"]
    THEN [model |-> json_data["model"]["id"]]
    ELSE IF "display_name" \in DOMAIN json_data["model"]
    THEN [model |-> json_data["model"]["display_name"]]
    ELSE EmptyDict

\* _extract_version
extract_version(json_data) ==
    IF "version" \in DOMAIN json_data THEN [version |-> json_data["version"]]
    ELSE EmptyDict

\* _extract_context
extract_context(json_data) ==
    IF "context_window" \notin DOMAIN json_data THEN EmptyDict
    ELSE LET cw == json_data["context_window"]
             total_tokens == Get(cw, "total_input_tokens", 0)
                                 + Get(cw, "total_output_tokens", 0)
         IN  MakeConfig(
                 [context_remaining |->
                      IF "remaining_percentage" \in DOMAIN cw
                      THEN Some(cw["remaining_percentage"]) ELSE Absent,
                  tokens |->
                      IF total_tokens > 0 THEN Some(total_tokens) ELSE Absent])

\* _extract_workspace
extract_workspace(json_data, git, enabled) ==
    IF "workspace" \in DOMAIN json_data
       /\ "current_dir" \in DOMAIN json_data["workspace"]
    THEN LET cwd == json_data["workspace"]["current_dir"]
             git_branch == get_git_branch(git)
             git_status == get_git_status(git, enabled)
             pr_status == get_pr_status(git, enabled)
             parts == <<git_branch>>
                          \o (IF git_status # <<>> THEN <<git_status>> ELSE <<>>)
                          \o (IF pr_status # <<>> THEN <<pr_status>> ELSE <<>>)
         IN  MakeConfig(
                 [current_dir |-> Some(BasenameOrPath(cwd)),
                  git_branch |->
                      IF git_branch # <<>> THEN Some(Join(<<" ">>, parts))
                      ELSE Absent])
    ELSE EmptyDict

\* _extract_cost: cost / duration_hours in cents and
\* int(tokens / duration_minutes); the quotients are exact on the inputs
\* drawn
extract_cost(json_data, accumulated_data) ==
    IF "cost" \notin DOMAIN json_data THEN EmptyDict
    ELSE LET cost_data == json_data["cost"]
             has_cost == "total_cost_usd" \in DOMAIN cost_data
             has_duration == "total_duration_ms" \in DOMAIN cost_data
             duration_ms == Get(cost_data, "total_duration_ms", 0)
             lines_added == Get(cost_data, "total_lines_added", 0)
             lines_removed == Get(cost_data, "total_lines_removed", 0)
         IN  MakeConfig(
                 [cost |->
                      IF has_cost THEN Some(cost_data["total_cost_usd"]) ELSE Absent,
                  duration |-> IF has_duration THEN Some(duration_ms) ELSE Absent,
                  cost_per_hour |->
                      IF has_duration /\ has_cost
                         /\ cost_data["total_cost_usd"] # 0 /\ duration_ms > 0
                      THEN Some((cost_data["total_cost_usd"] * 3600000)
                                    \div duration_ms)
                      ELSE Absent,
                  tokens_per_minute |->
                      IF has_duration /\ Get(accumulated_data, "tokens", 0) # 0
                         /\ duration_ms > 0
                      THEN Some((accumulated_data["tokens"] * 60000)
                                    \div duration_ms)
                      ELSE Absent,
                  lines_changed |->
                      IF lines_added > 0 \/ lines_removed > 0
                      THEN Some(lines_added + lines_removed) ELSE Absent])

\* _extract_output_style
extract_output_style(json_data) ==
    IF "output_style" \in DOMAIN json_data
       /\ "name" \in DOMAIN json_data["output_style"]
    THEN [output_style |-> json_data["output_style"]["name"]]
    ELSE EmptyDict

\* _extract_system_info, _extract_python_info and _extract_datetime
extract_host(host) ==
    MakeConfig(
        [cpu_usage |-> IF host.cpu # <<>> THEN Some(host.cpu) ELSE Absent,
         memory_usage |-> IF host.memory # <<>> THEN Some(host.memory) ELSE Absent,
         battery |-> IF host.battery # <<>> THEN Some(host.battery) ELSE Absent,
         python_version |->
             IF host.python_version # <<>> THEN Some(host.python_version)
             ELSE Absent,
         python_venv |->
             IF host.python_venv # <<>> THEN Some(host.python_venv) ELSE Absent,
         datetime |-> Some(host.now)])

\* DataExtractor.extract: the exception it ends with, which is the one of
\* the first collector that raises
extract_exception(json_data, git) ==
    IF "workspace" \in DOMAIN json_data
       /\ "current_dir" \in DOMAIN json_data["workspace"]
    THEN IF get_git_branch_exception(git) # "none"
         THEN get_git_branch_exception(git)
         ELSE IF get_git_branch(git) = <<>> THEN "none"
         ELSE IF get_git_status_exception(git) # "none"
         THEN get_git_status_exception(git)
         ELSE get_pr_status_exception(git)
    ELSE "none"

\* DataExtractor.extract
extract(json_data, git, host, enabled) ==
    LET data1 == Update(extract_model(json_data), extract_version(json_data))
        data2 == Update(data1, extract_context(json_data))
        data3 == Update(data2, extract_workspace(json_data, git, enabled))
        data4 == Update(data3, extract_cost(json_data, data3))
        data5 == Update(data4, extract_output_style(json_data))
    IN  Update(data5, extract_host(host))

----------------------------------------------------------------------------
(* StatusLineFormatter, the class statusline.py imports from               *)
(* display_formatter.py.  It reads the configuration the way               *)
(* format_compact and format_verbose do.                                   *)

\* The names of field_order that format renders: visible, registered, and
\* with a value to show.
FormatterKept(data, config, is_verbose_mode, enabled) ==
    SelectSeq(Get(config, "field_order", <<>>),
              LAMBDA field_name :
                  /\ Get(config["visible_fields"], field_name, FALSE)
                  /\ field_name \in DOMAIN create_field_registry
                  /\ Field_format(create_field_registry[field_name], data, config,
                                  is_verbose_mode, enabled) # <<>>)

\* The names of field_order whose field object is asked to render a value.
FormatterAsked(data, config) ==
    {field_name \in Range(Get(config, "field_order", <<>>)) :
        /\ Get(config["visible_fields"], field_name, FALSE)
        /\ field_name \in DOMAIN create_field_registry
        /\ format_value(create_field_registry[field_name], data) # <<>>}

\* The exception format ends with, "none" when it returns: the KeyError of
\* config["visible_fields"], config["colors"], and, once a field has a
\* value, of config["icons"] and config["progress_bar_width"].
StatusLineFormatter_exception(data, config) ==
    IF {"visible_fields", "colors"} \ DOMAIN config # {} THEN "KeyError"
    ELSE IF FormatterAsked(data, config) = {} THEN "none"
    ELSE IF "icons" \notin DOMAIN config THEN "KeyError"
    ELSE IF "context_remaining" \in FormatterAsked(data, config)
            /\ "progress_bar_width" \notin DOMAIN config
    THEN "KeyError"
    ELSE "none"

\* StatusLineFormatter.format(data, config, verbose)
StatusLineFormatter_format(data, config, is_verbose_mode, enabled) ==
    LET names == FormatterKept(data, config, is_verbose_mode, enabled)
        bucket(line) ==
            LET members == SelectSeq(names,
                                     LAMBDA field_name :
                                         create_field_registry[field_name].line = line)
            IN  [i \in 1..Len(members) |->
                    Field_format(create_field_registry[members[i]], data, config,
                                 is_verbose_mode, enabled)]
        separator == colorize(<<"  ">>, Get(config["colors"], "separator", COLOR_WHITE),
                              enabled)
    IN  Join(<<"\n">>,
             JoinedLines(bucket(LINE_IDENTITY), bucket(LINE_STATUS),
                         bucket(LINE_METRICS), separator))

----------------------------------------------------------------------------
(* statusline.py *)

\* _configure_colors: the value it leaves in colors._color_override
configure_colors(config, override, no_color) ==
    IF ~Get(config, "enable_colors", TRUE) THEN Some(FALSE)
    ELSE IF ~is_color_enabled(override, no_color) THEN Some(FALSE)
    ELSE None

----------------------------------------------------------------------------
(* The documents found in the file at start and the configurations saved. *)

ManagerModes == {"verbose", "large", "bogus"}
ManagerColorMaps == {[model |-> "purple"], [custom |-> "red"]}
ManagerOrders == {<<"cost", "bogus">>, <<"model", "model">>}
ManagerIcons == {[model |-> ""]}

ManagerConfigs ==
    {get_default_config} \cup
    {MakeConfig([display_mode |-> dm, colors |-> c, field_order |-> fo,
                 icons |-> ic]) :
        dm \in Optional(ManagerModes), c \in Optional(ManagerColorMaps),
        fo \in Optional(ManagerOrders), ic \in Optional(ManagerIcons)}

MistypedDocs ==
    {[json |-> "object", obj |-> EmptyDict, bad |-> {<<k, t>>}] :
        k \in DictKeys, t \in {"string", "number", "array", "null"}}
    \cup
    {[json |-> "object", obj |-> EmptyDict, bad |-> {<<"field_order", t>>}] :
        t \in {"string", "number", "object", "null"}}

Documents ==
    {Dump(c) : c \in ManagerConfigs}
    \cup {[json |-> j, obj |-> EmptyDict, bad |-> {}] :
            j \in {"invalid", "array", "number", "string", "null", "bool"}}
    \cup MistypedDocs

\* The input documents of generate: text that is no JSON, a JSON array and
\* the document of a session.
SessionDocument ==
    [model |-> [id |-> <<"opus">>, display_name |-> <<"Opus">>],
     version |-> <<"2.0">>,
     context_window |->
         [remaining_percentage |-> 85, total_input_tokens |-> 1000,
          total_output_tokens |-> 500],
     workspace |-> [current_dir |-> <<"", "home", "proj">>],
     cost |->
         [total_cost_usd |-> 125, total_duration_ms |-> 1800000,
          total_lines_added |-> 3, total_lines_removed |-> 0],
     output_style |-> [name |-> <<"default">>]]

JsonInputs ==
    {[json |-> "invalid", obj |-> EmptyDict], [json |-> "array", obj |-> EmptyDict],
     [json |-> "object", obj |-> SessionDocument]}

\* The workspaces generate runs in: no repository, and a checkout with
\* uncommitted changes, one commit ahead, and a pull request with a failed
\* check.
NoRepository ==
    [head |-> "absent", branch |-> <<>>, run |-> "nonzero", is_dirty |-> None,
     ahead |-> 0, behind |-> 0, gh |-> "nonzero",
     pr |-> [json |-> "invalid", obj |-> EmptyDict]]

DirtyCheckout ==
    [head |-> "ref", branch |-> <<"main">>, run |-> "ok",
     is_dirty |-> Some(TRUE), ahead |-> 1, behind |-> 0, gh |-> "ok",
     pr |-> [json |-> "object",
             obj |-> [number |-> 7, isDraft |-> FALSE, reviewDecision |-> "",
                      statusCheckRollup |-> <<"SUCCESS", "FAILURE">>]]]

GitStates == {NoRepository, DirtyCheckout}

HostInfo ==
    [cpu |-> <<"12", "%">>, memory |-> <<>>, battery |-> <<>>,
     python_version |-> <<"3.11.4">>, python_venv |-> <<>>,
     now |-> <<"2026-01-01 00:00:00">>]

----------------------------------------------------------------------------
(* ConfigManager and StatusLine as operations on the file and the cache. *)

Init ==
    /\ file \in Optional(Documents)
    /\ cache = None
    /\ op = "init"
    /\ arg = None
    /\ ret = None
    /\ exc = "none"
    /\ warned = {}
    /\ verbose = FALSE
    /\ _color_override = None
    /\ environ = None
    /\ output = None
    /\ stdout = <<>>
    /\ exit_status = None

Load ==
    LET r == LoadResult(FALSE)
    IN  /\ op' = "load"
        /\ file' = r.file
        /\ cache' = r.cache
        /\ ret' = r.ret
        /\ exc' = r.exc
        /\ warned' = r.warned
        /\ output' = None
        /\ UNCHANGED <<process, arg, verbose, _color_override, environ>>

Reload ==
    LET r == LoadResult(TRUE)
    IN  /\ op' = "reload"
        /\ file' = r.file
        /\ cache' = r.cache
        /\ ret' = r.ret
        /\ exc' = r.exc
        /\ warned' = r.warned
        /\ output' = None
        /\ UNCHANGED <<process, arg, verbose, _color_override, environ>>

Save ==
    \E config \in ManagerConfigs :
        LET validated_config == validate(config)
        IN  /\ op' = "save"
            /\ arg' = Some(config)
            /\ file' = Some(Dump(validated_config))
            /\ cache' = Some(validated_config)
            /\ ret' = None
            /\ exc' = "none"
            /\ warned' = ValidateWarnings(config)
            /\ output' = None
            /\ UNCHANGED <<process, verbose, _color_override, environ>>

EnsureExists ==
    /\ op' = "ensure_exists"
    /\ file' = FileAfterEnsure(file)
    /\ cache' = CacheAfterEnsure(file, cache)
    /\ ret' = None
    /\ exc' = "none"
    /\ warned' = {}
    /\ output' = None
    /\ UNCHANGED <<process, arg, verbose, _color_override, environ>>

\* StatusLine.generate(json_input) in the workspace git: the state it
\* leaves, the exception it ends with and the text it returns.
GenerateResult(json_input, git) ==
    LET unloaded == [file |-> file, cache |-> cache, warned |-> {},
                     verbose |-> verbose, override |-> _color_override,
                     output |-> None, exc |-> "none"]
    IN  IF json_input.json = "invalid"
        THEN [unloaded EXCEPT !.exc = "InvalidJSONError"]
        ELSE IF json_input.json # "object"
        THEN [unloaded EXCEPT !.exc = "AttributeError"]
        ELSE LET r == LoadResult(FALSE)
                 loaded == [file |-> r.file, cache |-> r.cache, warned |-> r.warned,
                            verbose |-> verbose, override |-> _color_override,
                            output |-> None, exc |-> r.exc]
             IN  IF r.exc # "none" THEN loaded
                 ELSE LET config == r.ret[1]
                          override ==
                              configure_colors(config, _color_override, environ)
                          enabled == is_color_enabled(override, environ)
                          data == extract(json_input.obj, git, HostInfo, enabled)
                          is_verbose_mode == is_verbose(GetDisplayMode(config))
                          e == StatusLineFormatter_exception(data, config)
                      IN  IF extract_exception(json_input.obj, git) # "none"
                          THEN [loaded EXCEPT
                                    !.override = override,
                                    !.exc = extract_exception(json_input.obj, git)]
                          ELSE
                          [loaded EXCEPT
                               !.override = override,
                               !.verbose = is_verbose_mode,
                               !.exc = e,
                               !.output =
                                   IF e = "none"
                                   THEN Some(StatusLineFormatter_format(
                                                 data, config, is_verbose_mode,
                                                 enabled))
                                   ELSE None]

\* A call of StatusLine.generate(json_input) in the workspace git.
generate(json_input, git) ==
    \E r \in {GenerateResult(json_input, git)} :
        /\ op' = "generate"
        /\ ret' = None
        /\ file' = r.file
        /\ cache' = r.cache
        /\ warned' = r.warned
        /\ exc' = r.exc
        /\ verbose' = r.verbose
        /\ _color_override' = r.override
        /\ output' = r.output
        /\ UNCHANGED <<process, arg, environ>>

Generate == \E json_input \in JsonInputs : generate(json_input, NoRepository)

Next == Load \/ Reload \/ Save \/ EnsureExists \/ Generate

Spec == Init /\ [][Next]_vars

----------------------------------------------------------------------------
(* StatusLine.generate called again and again in one process, while the    *)
(* configuration is saved with colours switched on or off and NO_COLOR is  *)
(* set, changed or unset in the environment.                               *)

ColorConfigs ==
    {[get_default_config EXCEPT !["enable_colors"] = enable_colors,
                                !["display_mode"] = display_mode] :
        enable_colors \in BOOLEAN, display_mode \in {"compact", "verbose"}}

SessionInputs == JsonInputs \cup {[json |-> "object", obj |-> EmptyDict]}

NoColorValues == {None, Some(""), Some("1")}

InitStatusLine ==
    /\ file \in Optional({Dump(validate(config)) : config \in ColorConfigs})
    /\ cache = None
    /\ op = "init"
    /\ arg = None
    /\ ret = None
    /\ exc = "none"
    /\ warned = {}
    /\ verbose = FALSE
    /\ _color_override = None
    /\ environ \in NoColorValues
    /\ output = None
    /\ stdout = <<>>
    /\ exit_status = None

\* ConfigManager.save(config) with a configuration of ColorConfigs
SaveColors ==
    \E config \in ColorConfigs :
        LET validated_config == validate(config)
        IN  /\ op' = "save"
            /\ arg' = Some(config)
            /\ file' = Some(Dump(validated_config))
            /\ cache' = Some(validated_config)
            /\ ret' = None
            /\ exc' = "none"
            /\ warned' = ValidateWarnings(config)
            /\ output' = None
            /\ UNCHANGED <<process, verbose, _color_override, environ>>

\* os.environ["NO_COLOR"] = value, or del os.environ["NO_COLOR"]
SetNoColor ==
    \E value \in NoColorValues \ {environ} :
        /\ op' = "environ"
        /\ environ' = value
        /\ ret' = None
        /\ exc' = "none"
        /\ warned' = {}
        /\ output' = None
        /\ UNCHANGED <<process, file, cache, arg, verbose, _color_override>>

GenerateInWorkspace ==
    \E json_input \in SessionInputs, git \in GitStates : generate(json_input, git)

NextStatusLine == GenerateInWorkspace \/ SaveColors \/ SetNoColor

SpecStatusLine == InitStatusLine /\ [][NextStatusLine]_vars

----------------------------------------------------------------------------
(* main: one run of the script on the text input_data read from stdin.     *)
(* The process starts with no cached configuration and ends with main.     *)

\* The classes among the exceptions raised that derive from Exception.
ExceptionClasses ==
    {"InvalidJSONError", "AttributeError", "TypeError", "KeyError"}

\* The except clauses of main with the handler of InvalidJSONError alone.
main_except_OnlyInvalidJSON(e) ==
    IF e = "InvalidJSONError" THEN "SystemExit" ELSE e

\* The except clauses of main: what leaves main when its try block raised e;
\* both handlers call sys.exit(1).
main_except(e) ==
    IF e = "InvalidJSONError" THEN "SystemExit"
    ELSE IF e \in ExceptionClasses THEN "SystemExit"
    ELSE e

StdinInputs ==
    JsonInputs
    \cup {[json |-> j, obj |-> EmptyDict] :
            j \in {"object", "number", "string", "null", "bool"}}

InitMain ==
    /\ file \in Optional(Documents)
    /\ cache = None
    /\ op = "init"
    /\ arg = None
    /\ ret = None
    /\ exc = "none"
    /\ warned = {}
    /\ verbose = FALSE
    /\ _color_override = None
    /\ environ \in {None, Some("")}
    /\ output = None
    /\ stdout = <<>>
    /\ exit_status = None

\* main(), then the end of the process: with status 0 when main returns,
\* with the status given to sys.exit, with 1 for an exception nobody caught.
Main ==
    /\ exit_status = None
    /\ \E input_data \in StdinInputs, git \in GitStates :
           \E r \in {GenerateResult(input_data, git)} :
           LET e == IF r.exc = "none" THEN "none" ELSE main_except(r.exc)
           IN  /\ op' = "main"
               /\ arg' = Some(input_data)
               /\ ret' = None
               /\ file' = r.file
               /\ cache' = r.cache
               /\ warned' = r.warned
               /\ verbose' = r.verbose
               /\ _color_override' = r.override
               /\ output' = None
               /\ exc' = e
               /\ stdout' = IF r.exc = "none"
                            THEN Append(stdout, r.output[1] \o <<"\n">>)
                            ELSE stdout
               /\ exit_status' = Some(IF e = "none" THEN 0 ELSE 1)
               /\ UNCHANGED environ

NextMain == Main

SpecMain == InitMain /\ [][NextMain]_vars

----------------------------------------------------------------------------
(* The formatting functions as operations: format_compact(data, config)    *)
(* and format_verbose(data, config), called with arg = <<[data, config]>>  *)
(* under the colour state the process is in.                               *)

\* d restricted to the keys in K
Restrict(d, K) == [k \in DOMAIN d \cap K |-> d[k]]

Reverse(s) == [i \in 1..Len(s) |-> s[Len(s) + 1 - i]]

FullData ==
    [current_dir |-> <<"proj">>, git_branch |-> <<"main">>, model |-> <<"m1">>,
     version |-> <<"v1.0.85">>, output_style |-> <<"markdown">>,
     context_remaining |-> 85, duration |-> 1800000, tokens |-> 75000,
     tokens_per_minute |-> 2500, cost |-> 1250, cost_per_hour |-> 2500,
     lines_changed |-> 150, bogus |-> <<"zzz">>]

\* FullData with every count at zero
ZeroData ==
    [k \in DOMAIN FullData |->
        IF k \in NumericNames THEN 0 ELSE FullData[k]]

DataKeySets ==
    SUBSET {"model", "context_remaining", "duration", "cost", "bogus"}
    \cup {DOMAIN FullData,
          {"current_dir", "output_style", "lines_changed", "tokens"},
          {"tokens", "tokens_per_minute", "cost", "cost_per_hour", "version"}}

DataInputs == {Restrict(d, K) : d \in {FullData, ZeroData}, K \in DataKeySets}

AllVisible == [k \in FormatterNames \cup {"bogus"} |-> TRUE]

FormatVisible ==
    {AllVisible, DEFAULT_VISIBLE_FIELDS,
     [context_remaining |-> TRUE, duration |-> TRUE, cost |-> TRUE,
      model |-> FALSE, bogus |-> TRUE]}

FormatOrders ==
    {DEFAULT_FIELD_ORDER, Reverse(DEFAULT_FIELD_ORDER),
     <<"tokens", "bogus", "duration", "model", "context_remaining", "cost",
       "current_dir">>,
     ValidateOrderList(<<"model", "model">>)}

FormatColorMaps ==
    {DEFAULT_COLORS,
     [DEFAULT_COLORS EXCEPT !.current_dir = "red", !.model = "red",
                            !.context_remaining = "red", !.separator = "blue"]}

FormatConfigs ==
    {[get_default_config EXCEPT !.visible_fields = vf, !.field_order = fo,
                                !.colors = co] :
        vf \in FormatVisible, fo \in FormatOrders, co \in FormatColorMaps}
    \cup {[get_default_config EXCEPT !.visible_fields = AllVisible,
                                     !.icons = EmptyDict],
          [get_default_config EXCEPT !.visible_fields = AllVisible,
                                     !.show_progress_bars = FALSE],
          [get_default_config EXCEPT !.visible_fields = AllVisible,
                                     !.progress_bar_width = JInt(50)]}

InitFormat ==
    /\ file = None
    /\ cache = None
    /\ op = "init"
    /\ arg \in Present([data : DataInputs, config : FormatConfigs])
    /\ ret = None
    /\ exc = "none"
    /\ warned = {}
    /\ verbose = FALSE
    /\ _color_override \in {None, Some(FALSE)}
    /\ environ \in {None, Some("")}
    /\ output = None
    /\ stdout = <<>>
    /\ exit_status = None

FormatCompact ==
    /\ op = "init"
    /\ op' = "format_compact"
    /\ output' = Some(format_compact(arg[1].data, arg[1].config,
                                     is_color_enabled(_color_override, environ)))
    /\ UNCHANGED <<process, file, cache, arg, ret, exc, warned, verbose, _color_override,
                   environ>>

FormatVerbose ==
    /\ op = "init"
    /\ op' = "format_verbose"
    /\ output' = Some(format_verbose(arg[1].data, arg[1].config,
                                     is_color_enabled(_color_override, environ)))
    /\ UNCHANGED <<process, file, cache, arg, ret, exc, warned, verbose, _color_override,
                   environ>>

NextFormat == FormatCompact \/ FormatVerbose

SpecFormat == InitFormat /\ [][NextFormat]_vars

----------------------------------------------------------------------------
(* colorize as an operation: colorize(text, color_name) with               *)
(* arg = <<[text, color_name]>>, under every colour state.                 *)

ColorizeTexts == {<<>>, <<"test">>, <<"PR#", "12">>}

ColorizeNames ==
    Range(VALID_COLORS)
    \cup {"reset", "CYAN", "Red", "RESET", "invalid_color", "purple", ""}

InitColors ==
    /\ file = None
    /\ cache = None
    /\ op = "init"
    /\ arg \in Present([text : ColorizeTexts, color_name : ColorizeNames])
    /\ ret = None
    /\ exc = "none"
    /\ warned = {}
    /\ verbose = FALSE
    /\ _color_override \in {None, Some(FALSE), Some(TRUE)}
    /\ environ \in {None, Some(""), Some("1")}
    /\ output = None
    /\ stdout = <<>>
    /\ exit_status = None

Colorize ==
    /\ op = "init"
    /\ op' = "colorize"
    /\ output' = Some(colorize(arg[1].text, arg[1].color_name,
                               is_color_enabled(_color_override, environ)))
    /\ UNCHANGED <<process, file, cache, arg, ret, exc, warned, verbose, _color_override,
                   environ>>

NextColors == Colorize

SpecColors == InitColors /\ [][NextColors]_vars

----------------------------------------------------------------------------
(* The two duration humanizers as operations on arg = <<duration_ms>>:     *)
(* format_duration(duration_ms), then the duration field's                 *)
(* format_value({"duration": duration_ms}, config).                        *)

DurationInputs ==
    (0..1200)
    \cup {50 * n : n \in 20..1201}
    \cup {60000 * n - 1 : n \in 1..130} \cup {60000 * n : n \in 1..130}
    \cup {59949, 59951, 59999, 60001, 3900000, 86399999, 86400000, 360000000}

InitDuration ==
    /\ file = None
    /\ cache = None
    /\ op = "init"
    /\ arg \in Present(DurationInputs)
    /\ ret = None
    /\ exc = "none"
    /\ warned = {}
    /\ verbose = FALSE
    /\ _color_override = None
    /\ environ = None
    /\ output = None
    /\ stdout = <<>>
    /\ exit_status = None

FormatDuration ==
    /\ op = "init"
    /\ op' = "format_duration"
    /\ output' = Some(format_duration(arg[1]))
    /\ UNCHANGED <<process, file, cache, arg, ret, exc, warned, verbose, _color_override,
                   environ>>

DurationFormatValue ==
    /\ op = "format_duration"
    /\ op' = "format_value"
    /\ ret' = Some(DurationField_format_value(create_field_registry["duration"],
                                              [duration |-> arg[1]]))
    /\ UNCHANGED <<process, file, cache, arg, exc, warned, verbose, _color_override,
                   environ, output>>

NextDuration == FormatDuration \/ DurationFormatValue

SpecDuration == InitDuration /\ [][NextDuration]_vars

----------------------------------------------------------------------------
(* The two progress bars as operations on                                  *)
(* arg = <<[percentage, width, show_progress_bars]>>:                      *)
(* format_progress_bar(percentage, width, config), then the percentage     *)
(* field's _format_progress_bar(percentage, width, config).                *)

BarPercentages == 0..100
BarWidths == MIN_PROGRESS_BAR_WIDTH..MAX_PROGRESS_BAR_WIDTH

BarConfig(show_progress_bars) ==
    [get_default_config EXCEPT !["show_progress_bars"] = show_progress_bars]

InitBar ==
    /\ file = None
    /\ cache = None
    /\ op = "init"
    /\ arg \in Present([percentage : BarPercentages, width : BarWidths,
                        show_progress_bars : BOOLEAN])
    /\ ret = None
    /\ exc = "none"
    /\ warned = {}
    /\ verbose = FALSE
    /\ _color_override \in {None, Some(FALSE)}
    /\ environ = None
    /\ output = None
    /\ stdout = <<>>
    /\ exit_status = None

FormatProgressBar ==
    /\ op = "init"
    /\ op' = "format_progress_bar"
    /\ output' = Some(format_progress_bar(
                          arg[1].percentage, arg[1].width,
                          BarConfig(arg[1].show_progress_bars),
                          is_color_enabled(_color_override, environ)))
    /\ UNCHANGED <<process, file, cache, arg, ret, exc, warned, verbose, _color_override,
                   environ>>

FieldFormatProgressBar ==
    /\ op = "format_progress_bar"
    /\ op' = "_format_progress_bar"
    /\ ret' = Some(ProgressField_format_progress_bar(
                       arg[1].percentage, arg[1].width,
                       BarConfig(arg[1].show_progress_bars),
                       is_color_enabled(_color_override, environ)))
    /\ UNCHANGED <<process, file, cache, arg, exc, warned, verbose, _color_override,
                   environ, output>>

NextBar == FormatProgressBar \/ FieldFormatProgressBar

SpecBar == InitBar /\ [][NextBar]_vars

----------------------------------------------------------------------------
(* One field rendered alone, with                                          *)
(* arg = <<[name, data, config, is_verbose_mode]>>: the field object's     *)
(* format(data, config, is_verbose_mode), then format_compact or           *)
(* format_verbose on the part of data that belongs to the field.           *)

FieldNames == DOMAIN create_field_registry

FieldData == {FullData, ZeroData, Restrict(FullData, FieldNames), EmptyDict}

EmptyIcons == [k \in DOMAIN DEFAULT_ICONS |-> ""]

FieldConfigs ==
    {[get_default_config EXCEPT !.visible_fields = AllVisible, !.icons = ic,
                                !.colors = co] :
        ic \in {DEFAULT_ICONS, EmptyDict, EmptyIcons}, co \in FormatColorMaps}
    \cup {[get_default_config EXCEPT !.visible_fields = AllVisible,
                                     !.show_progress_bars = FALSE]}

\* The keys of data that the field name reads.
FieldKeys(name) ==
    LET self == create_field_registry[name]
    IN  {name} \cup (IF self.rate_field # None THEN {self.rate_field[1]} ELSE {})

InitField ==
    /\ file = None
    /\ cache = None
    /\ op = "init"
    /\ arg \in Present([name : FieldNames, data : FieldData, config : FieldConfigs,
                        is_verbose_mode : BOOLEAN])
    /\ ret = None
    /\ exc = "none"
    /\ warned = {}
    /\ verbose = FALSE
    /\ _color_override \in {None, Some(FALSE)}
    /\ environ = None
    /\ output = None
    /\ stdout = <<>>
    /\ exit_status = None

FieldFormat ==
    /\ op = "init"
    /\ op' = "format"
    /\ output' = Some(Field_format(create_field_registry[arg[1].name], arg[1].data,
                                   arg[1].config, arg[1].is_verbose_mode,
                                   is_color_enabled(_color_override, environ)))
    /\ UNCHANGED <<process, file, cache, arg, ret, exc, warned, verbose, _color_override,
                   environ>>

FormatOneField ==
    /\ op = "format"
    /\ op' = "format_one"
    /\ ret' = LET data == Restrict(arg[1].data, FieldKeys(arg[1].name))
                  enabled == is_color_enabled(_color_override, environ)
              IN  Some(IF arg[1].is_verbose_mode
                       THEN format_verbose(data, arg[1].config, enabled)
                       ELSE format_compact(data, arg[1].config, enabled))
    /\ UNCHANGED <<process, file, cache, arg, exc, warned, verbose, _color_override,
                   environ, output>>

NextField == FieldFormat \/ FormatOneField

SpecField == InitField /\ [][NextField]_vars

----------------------------------------------------------------------------
(* A field looked up by name, with arg = <<[name, data, is_verbose_mode]>>: *)
(* StatusLineFormatter.get_field(name), then StatusLineFormatter.format    *)
(* under a configuration whose field_order starts with that name and whose *)
(* visible_fields shows it.                                                *)

\* FieldNotFoundError(field_name): the exception object
FieldNotFoundError(field_name) ==
    [field_name |-> field_name,
     message |-> <<"Field '", field_name, "' not found in registry">>]

\* get_field that answers an unknown name with None.
get_field_ReturnsNone(field_name) ==
    IF field_name \in DOMAIN create_field_registry
    THEN [exc |-> "none", value |-> Some(create_field_registry[field_name])]
    ELSE [exc |-> "none", value |-> None]

\* StatusLineFormatter.get_field(field_name): the exception it ends with and
\* the field it returns or the exception object it raises.
get_field(field_name) ==
    IF field_name \in DOMAIN create_field_registry
    THEN [exc |-> "none", value |-> Some(create_field_registry[field_name])]
    ELSE [exc |-> "FieldNotFoundError",
          value |-> Some(FieldNotFoundError(field_name))]

LookupNames ==
    DOMAIN create_field_registry \cup {"bogus", "nonexistent_field", "cpu_usage", ""}

LookupConfig(name) ==
    [get_default_config EXCEPT
         !.field_order = <<name>> \o DEFAULT_FIELD_ORDER,
         !.visible_fields = [k \in DOMAIN AllVisible \cup {name} |-> TRUE]]

InitLookup ==
    /\ file = None
    /\ cache = None
    /\ op = "init"
    /\ arg \in Present([name : LookupNames, data : FieldData,
                        is_verbose_mode : BOOLEAN])
    /\ ret = None
    /\ exc = "none"
    /\ warned = {}
    /\ verbose = FALSE
    /\ _color_override = None
    /\ environ = None
    /\ output = None
    /\ stdout = <<>>
    /\ exit_status = None

\* formatter.get_field(name); ret is the field returned or the exception
\* object raised
GetField ==
    /\ op = "init"
    /\ op' = "get_field"
    /\ exc' = get_field(arg[1].name).exc
    /\ ret' = get_field(arg[1].name).value
    /\ UNCHANGED <<process, file, cache, arg, warned, verbose, _color_override,
                   environ, output>>

\* formatter.format(data, config, verbose) with name in field_order
FormatLookup ==
    /\ op = "get_field"
    /\ op' = "format"
    /\ LET config == LookupConfig(arg[1].name)
           e == StatusLineFormatter_exception(arg[1].data, config)
       IN  /\ exc' = e
           /\ output' = IF e = "none"
                        THEN Some(StatusLineFormatter_format(
                                      arg[1].data, config, arg[1].is_verbose_mode,
                                      is_color_enabled(_color_override, environ)))
                        ELSE None
    /\ UNCHANGED <<process, file, cache, arg, ret, warned, verbose,
                   _color_override, environ>>

NextLookup == GetField \/ FormatLookup

SpecLookup == InitLookup /\ [][NextLookup]_vars

----------------------------------------------------------------------------
(* The collectors of git_utils.py as operations: a call of one collector   *)
(* in the workspace arg; output is the string returned, exc the exception  *)
(* the call ended with.                                                    *)

HeadOutcomes == {"absent", "ref", "detached", "OSError", "UnicodeDecodeError"}

\* What `gh pr view --json ...` may print: no JSON, a JSON array, an object
\* without a pull request number, and a pull request with a failed check.
PrDocuments ==
    {[json |-> "invalid", obj |-> EmptyDict],
     [json |-> "array", obj |-> EmptyDict],
     [json |-> "object", obj |-> EmptyDict],
     DirtyCheckout.pr}

Workspaces ==
    [head : HeadOutcomes, branch : {<<"main">>}, run : RunOutcomes,
     is_dirty : {Some(TRUE)}, ahead : {1}, behind : {0}, gh : RunOutcomes,
     pr : PrDocuments]

InitGit ==
    /\ file = None
    /\ cache = None
    /\ op = "init"
    /\ arg \in Present(Workspaces)
    /\ ret = None
    /\ exc = "none"
    /\ warned = {}
    /\ verbose = FALSE
    /\ _color_override = None
    /\ environ = None
    /\ output = None
    /\ stdout = <<>>
    /\ exit_status = None

\* The call collector(cwd) ended with exception e, or returned text.
Collected(name, e, text) ==
    /\ op = "init"
    /\ op' = name
    /\ exc' = e
    /\ output' = IF e = "none" THEN Some(text) ELSE None
    /\ UNCHANGED <<process, file, cache, arg, ret, warned, verbose,
                   _color_override, environ>>

GetGitBranch ==
    Collected("get_git_branch", get_git_branch_exception(arg[1]),
              get_git_branch(arg[1]))

GetGitStatus ==
    Collected("get_git_status", get_git_status_exception(arg[1]),
              get_git_status(arg[1], is_color_enabled(_color_override, environ)))

GetPrStatus ==
    Collected("get_pr_status", get_pr_status_exception(arg[1]),
              get_pr_status(arg[1], is_color_enabled(_color_override, environ)))

NextGit == GetGitBranch \/ GetGitStatus \/ GetPrStatus

SpecGit == InitGit /\ [][NextGit]_vars

----------------------------------------------------------------------------
(* DataExtractor on session documents whose cost and context_window parts  *)
(* vary: arg is json_data, ret the data extracted.                         *)

CostValues == {0, 125}
DurationValues == {-1, 0, 1800000, 3600000}
TokenCounts == {0, 1000}

CostParts ==
    {MakeConfig([total_cost_usd |-> cost, total_duration_ms |-> duration,
                 total_lines_added |-> Some(3)]) :
         cost \in Optional(CostValues), duration \in Optional(DurationValues)}

ContextParts ==
    {MakeConfig([remaining_percentage |-> Some(85), total_input_tokens |-> input,
                 total_output_tokens |-> out]) :
         input \in Optional(TokenCounts), out \in Optional(TokenCounts)}

RateDocuments ==
    {MakeConfig([cost |-> cost, context_window |-> context_window]) :
         cost \in Optional(CostParts), context_window \in Optional(ContextParts)}

InitRates ==
    /\ file = None
    /\ cache = None
    /\ op = "init"
    /\ arg \in Present(RateDocuments)
    /\ ret = None
    /\ exc = "none"
    /\ warned = {}
    /\ verbose = FALSE
    /\ _color_override = None
    /\ environ = None
    /\ output = None
    /\ stdout = <<>>
    /\ exit_status = None

\* data.update(self._extract_context(json_data)) followed by
\* data.update(self._extract_cost(json_data, data)) on an empty data
ExtractCost ==
    /\ op = "init"
    /\ op' = "_extract_cost"
    /\ LET data == extract_context(arg[1])
       IN  ret' = Some(Update(data, extract_cost(arg[1], data)))
    /\ UNCHANGED <<process, file, cache, arg, exc, warned, verbose,
                   _color_override, environ, output>>

\* DataExtractor.extract(json_data, config)
Extract ==
    /\ op = "init"
    /\ op' = "extract"
    /\ ret' = Some(extract(arg[1], NoRepository, HostInfo,
                           is_color_enabled(_color_override, environ)))
    /\ UNCHANGED <<process, file, cache, arg, exc, warned, verbose,
                   _color_override, environ, output>>

NextRates == ExtractCost \/ Extract

SpecRates == InitRates /\ [][NextRates]_vars

----------------------------------------------------------------------------
(* Formatting the same data with the same configuration once with colours  *)
(* and once without: ret is the text produced while colours were enabled,  *)
(* output the text produced while NO_COLOR was set.                        *)

\* Colour maps with palette names, names in capitals, the name of the reset
\* code, names outside the palette, and no names at all.
PlainColorMaps ==
    FormatColorMaps
    \cup {[DEFAULT_COLORS EXCEPT !.model = "CYAN", !.cost = "Red",
                                 !.separator = "RESET", !.tokens = "purple",
                                 !.context_remaining = "reset"],
          EmptyDict}

PlainConfigs ==
    {[get_default_config EXCEPT !.visible_fields = AllVisible, !.icons = ic,
                                !.colors = co, !.show_progress_bars = bars] :
        ic \in {DEFAULT_ICONS, EmptyDict}, co \in PlainColorMaps,
        bars \in BOOLEAN}

InitPlain ==
    /\ file = None
    /\ cache = None
    /\ op = "init"
    /\ arg \in Present([data : {FullData, ZeroData,
                                Restrict(FullData, {"model", "cost", "tokens"})},
                        config : PlainConfigs, is_verbose_mode : BOOLEAN,
                        name : {"", "context_remaining", "cost"}])
    /\ ret = None
    /\ exc = "none"
    /\ warned = {}
    /\ verbose = FALSE
    /\ _color_override = None
    /\ environ \in {None, Some("")}
    /\ output = None
    /\ stdout = <<>>
    /\ exit_status = None

\* The text is kept in ret when it was produced with colours enabled, and
\* in output when it was produced with colours disabled.
Kept_text(name, text) ==
    /\ op' = name
    /\ IF is_color_enabled(_color_override, environ)
       THEN ret = None /\ ret' = Some(text) /\ output' = output
       ELSE output = None /\ output' = Some(text) /\ ret' = ret
    /\ UNCHANGED <<process, file, cache, arg, exc, warned, verbose,
                   _color_override, environ>>

\* format_compact(data, config) or format_verbose(data, config)
FormatLines ==
    /\ arg[1].name = ""
    /\ Kept_text("format_lines",
                 IF arg[1].is_verbose_mode
                 THEN format_verbose(arg[1].data, arg[1].config,
                                     is_color_enabled(_color_override, environ))
                 ELSE format_compact(arg[1].data, arg[1].config,
                                     is_color_enabled(_color_override, environ)))

\* field.format(data, config, verbose) of the field object arg[1].name
FormatField ==
    /\ arg[1].name # ""
    /\ Kept_text("format_field",
                 Field_format(create_field_registry[arg[1].name], arg[1].data,
                              arg[1].config, arg[1].is_verbose_mode,
                              is_color_enabled(_color_override, environ)))

\* os.environ["NO_COLOR"] = "", or del os.environ["NO_COLOR"], between two
\* calls
SwitchNoColor ==
    /\ op \in {"format_lines", "format_field"}
    /\ op' = "environ"
    /\ environ' = IF environ = None THEN Some("") ELSE None
    /\ UNCHANGED <<process, file, cache, arg, ret, exc, warned, verbose,
                   _color_override, output>>

NextPlain == FormatLines \/ FormatField \/ SwitchNoColor

SpecPlain == InitPlain /\ [][NextPlain]_vars

----------------------------------------------------------------------------
(* save and the dict of its caller: arg is the caller's dict, before the   *)
(* call as the caller built it, after the call as the call left it.        *)

\* What save leaves in the dict it was given.  validate works on
\* config.copy(), a copy one level deep: the assignments to config[key] stay
\* in the copy, the assignments to config["colors"][field] and the appends
\* to config["field_order"] reach the dict and the list of the caller.  The
\* list of the copy is replaced by a new one before the appends when it
\* holds an unknown name.
ArgumentAfterSave(config) ==
    LET colors_done ==
            IF "colors" \in DOMAIN config
            THEN DictSet(config, "colors", ValidateColorsMap(config["colors"]))
            ELSE config
    IN  IF "field_order" \in DOMAIN config
           /\ Range(config["field_order"]) \subseteq Range(VALID_FIELD_NAMES)
        THEN DictSet(colors_done, "field_order",
                     AppendMissing(config["field_order"], VALID_FIELD_NAMES))
        ELSE colors_done

SaveArguments ==
    ManagerConfigs
    \cup {[progress_bar_width |-> JInt(99), display_mode |-> "bogus"],
          [get_default_config EXCEPT !.field_order = <<"model", "cost">>]}

InitSave ==
    /\ file \in {None, Some(Dump(get_default_config))}
    /\ cache = None
    /\ op = "init"
    /\ arg \in Present(SaveArguments)
    /\ ret = None
    /\ exc = "none"
    /\ warned = {}
    /\ verbose = FALSE
    /\ _color_override = None
    /\ environ = None
    /\ output = None
    /\ stdout = <<>>
    /\ exit_status = None

\* config_manager.save(config) with the dict arg of the caller
SaveArgument ==
    /\ op \in {"init", "load"}
    /\ LET validated_config == validate(arg[1])
       IN  /\ op' = "save"
           /\ arg' = Some(ArgumentAfterSave(arg[1]))
           /\ file' = Some(Dump(validated_config))
           /\ cache' = Some(validated_config)
           /\ ret' = None
           /\ exc' = "none"
           /\ warned' = ValidateWarnings(arg[1])
           /\ output' = None
    /\ UNCHANGED <<process, verbose, _color_override, environ>>

\* config_manager.load() before the save, with the file that is there
LoadBeforeSave ==
    /\ op = "init"
    /\ LET r == LoadResult(FALSE)
       IN  /\ op' = "load"
           /\ file' = r.file
           /\ cache' = r.cache
           /\ ret' = r.ret
           /\ exc' = r.exc
           /\ warned' = r.warned
           /\ output' = None
    /\ UNCHANGED <<process, arg, verbose, _color_override, environ>>

NextSave == SaveArgument \/ LoadBeforeSave

SpecSave == InitSave /\ [][NextSave]_vars

----------------------------------------------------------------------------
(* Properties of validate, stated on a call validate(arg) that returned ret. *)

Palette == {"cyan", "green", "blue", "magenta", "yellow", "red", "white"}
KnownFields == Range(VALID_FIELD_NAMES)
WidthInRange(w) == w.t = "int" /\ 5 <= w.v /\ w.v <= 50
Validated == op = "validate"
ArgCfg == arg[1]
RetCfg == ret[1]

\* C1: for every configuration that carries a field_order (any length, any
\* repetition, known or unknown names), the field_order validate returns
\* holds every known field name exactly once and no other name.
C1_FieldOrderIsPermutation ==
    (Validated /\ "field_order" \in DOMAIN ArgCfg) =>
        /\ Range(RetCfg["field_order"]) = KnownFields
        /\ Len(RetCfg["field_order"]) = Cardinality(KnownFields)

\* C2: validate is idempotent: validating what validate returned returns the
\* same configuration again and logs no warning.
C2_ValidateIdempotent ==
    op = "revalidate" => (ret = Some(validate(ArgCfg)) /\ warned = {})

\* C2 witness: a second validation of a configuration whose first validation
\* corrected the display mode, the width, a colour and the field order.
C2_Witness ==
    /\ op = "revalidate"
    /\ Cardinality(ValidateWarnings(ArgCfg)) = 4
    /\ "custom" \in DOMAIN ArgCfg["colors"]
    /\ Len(ArgCfg["field_order"]) = MaxOrderLen

\* C3: the progress_bar_width validate returns is an integer in 5..50: a value
\* that is no integer or lies outside 5..50 is replaced by 10, any other value
\* is kept (a configuration without the key is returned without it).
C3_WidthInRange ==
    Validated =>
        /\ "progress_bar_width" \in DOMAIN RetCfg
              => WidthInRange(RetCfg["progress_bar_width"])
        /\ ("progress_bar_width" \in DOMAIN RetCfg)
              <=> ("progress_bar_width" \in DOMAIN ArgCfg)
        /\ "progress_bar_width" \in DOMAIN ArgCfg
              => RetCfg["progress_bar_width"] =
                    IF WidthInRange(ArgCfg["progress_bar_width"])
                    THEN ArgCfg["progress_bar_width"]
                    ELSE [t |-> "int", v |-> 10]

\* C3 witness: widths 51 and 4, a float and a bool are replaced by 10, and
\* the boundary widths 5 and 50 are kept.
C3_Witness ==
    /\ Validated
    /\ "progress_bar_width" \in DOMAIN ArgCfg
    /\ ArgCfg["progress_bar_width"] = [t |-> "int", v |-> 51]
    /\ RetCfg["progress_bar_width"] = [t |-> "int", v |-> 10]

\* C4: every colors entry whose value is outside the palette is replaced by
\* the default of that same key (white when the key has none); no entry is
\* left outside the palette and the entries that were valid are unchanged.
C4_ColorsReplacedByDefault ==
    (Validated /\ "colors" \in DOMAIN ArgCfg) =>
        /\ DOMAIN RetCfg["colors"] = DOMAIN ArgCfg["colors"]
        /\ \A f \in DOMAIN ArgCfg["colors"] :
              /\ RetCfg["colors"][f] \in Palette
              /\ RetCfg["colors"][f] =
                    IF ArgCfg["colors"][f] \in Palette
                    THEN ArgCfg["colors"][f]
                    ELSE IF f \in DOMAIN DEFAULT_COLORS
                         THEN DEFAULT_COLORS[f] ELSE "white"

\* C4 witness: an invalid colour under a key with a default (model -> blue)
\* and under a key without one (custom -> white).
C4_Witness ==
    /\ Validated
    /\ "colors" \in DOMAIN ArgCfg
    /\ ArgCfg["colors"] = [model |-> "purple", custom |-> "purple"]
    /\ RetCfg["colors"] = [model |-> "blue", custom |-> "white"]

\* C8: validate corrects each key on its own: a key it does not validate is
\* returned as it was, a validated key that was valid is returned as it was,
\* a colors entry that was valid is returned as it was, no colors entry is
\* added, and the only key validate may add is display_mode.
OrderValid(order) ==
    /\ Range(order) \subseteq KnownFields
    /\ KnownFields \subseteq Range(order)
C8_ValidateFrame ==
    Validated =>
        /\ DOMAIN RetCfg = DOMAIN ArgCfg \cup {"display_mode"}
        /\ \A k \in DOMAIN ArgCfg :
              k \notin {"display_mode", "progress_bar_width", "colors", "field_order"}
                 => RetCfg[k] = ArgCfg[k]
        /\ ("display_mode" \in DOMAIN ArgCfg
            /\ ArgCfg["display_mode"] \in {"compact", "verbose"})
              => RetCfg["display_mode"] = ArgCfg["display_mode"]
        /\ ("progress_bar_width" \in DOMAIN ArgCfg
            /\ WidthInRange(ArgCfg["progress_bar_width"]))
              => RetCfg["progress_bar_width"] = ArgCfg["progress_bar_width"]
        /\ "colors" \in DOMAIN ArgCfg
              => /\ DOMAIN RetCfg["colors"] = DOMAIN ArgCfg["colors"]
                 /\ \A f \in DOMAIN ArgCfg["colors"] :
                       ArgCfg["colors"][f] \in Palette
                          => RetCfg["colors"][f] = ArgCfg["colors"][f]
        /\ ("field_order" \in DOMAIN ArgCfg /\ OrderValid(ArgCfg["field_order"]))
              => RetCfg["field_order"] = ArgCfg["field_order"]

\* C8 witness: display mode, one colour and the field order are corrected
\* while the valid width, the valid colour and visible_fields stay.
C8_Witness ==
    /\ Validated
    /\ DOMAIN ArgCfg = {"display_mode", "progress_bar_width", "colors",
                        "field_order", "visible_fields"}
    /\ ArgCfg["display_mode"] = "bogus"
    /\ ArgCfg["progress_bar_width"] = [t |-> "int", v |-> 50]
    /\ ArgCfg["colors"] = [model |-> "purple", custom |-> "red"]
    /\ ArgCfg["field_order"] = <<"bogus", "cost">>
    /\ RetCfg["colors"] = [model |-> "blue", custom |-> "red"]
    /\ RetCfg["display_mode"] = "compact"
    /\ Head(RetCfg["field_order"]) = "cost"

----------------------------------------------------------------------------
(* Properties of ConfigManager and StatusLine, stated on the last operation. *)

FileDoc == file[1]
Loaded == op \in {"load", "reload"}

\* The file holds a well-typed object and the cache holds what loading that
\* document gives.
DocumentLoaded ==
    /\ file # None
    /\ FileDoc.json = "object"
    /\ FileDoc.bad = {}
    /\ cache = Some(LoadedConfig(FileDoc))

\* C5: a configuration document whose display_mode is the legacy alias
\* "large", once loaded and used by StatusLine.generate, gets the verbose
\* rendering.
C5_LargeIsVerbose ==
    (/\ op = "generate"
     /\ exc = "none"
     /\ DocumentLoaded
     /\ "display_mode" \in DOMAIN FileDoc.obj
     /\ FileDoc.obj["display_mode"] = "large")
        => verbose = TRUE

\* C6: whatever readable content the file has (invalid JSON, a top-level
\* value that is no object, a dict-valued key or field_order of another
\* type), load returns a configuration and raises nothing, and for invalid
\* JSON it returns the full default configuration.
C6_LoadNeverRaises ==
    Loaded =>
        /\ exc = "none"
        /\ ret # None
        /\ FileDoc.json = "invalid" => ret = Some(get_default_config)

\* C7: loading a document fills every top-level key it lacks from the
\* defaults, and under visible_fields, icons and colors fills every sub-key
\* it lacks from the defaults while every sub-key it sets keeps its value
\* through the merge (and in what load returns, unless validate then
\* replaces a colour outside the palette).
C7_MergeFillsMissingKeys ==
    (Loaded /\ exc = "none" /\ DocumentLoaded) =>
        LET d == FileDoc.obj
            m == MergeDefaults(d)
            r == ret[1]
            D == get_default_config
        IN  /\ DOMAIN m = DOMAIN d \cup DOMAIN D
            /\ DOMAIN r = DOMAIN d \cup DOMAIN D
            /\ \A k \in DOMAIN D \ DOMAIN d : m[k] = D[k] /\ r[k] = D[k]
            /\ \A k \in {"visible_fields", "icons", "colors"} \cap DOMAIN d :
                  /\ DOMAIN m[k] = DOMAIN d[k] \cup DOMAIN D[k]
                  /\ DOMAIN r[k] = DOMAIN d[k] \cup DOMAIN D[k]
                  /\ \A sk \in DOMAIN D[k] \ DOMAIN d[k] :
                        m[k][sk] = D[k][sk] /\ r[k][sk] = D[k][sk]
                  /\ \A sk \in DOMAIN d[k] :
                        /\ m[k][sk] = d[k][sk]
                        /\ (k # "colors" \/ d[k][sk] \in Palette)
                              => r[k][sk] = d[k][sk]

\* C7 witness: a loaded document that sets one icon and one colour and lacks
\* visible_fields: the set sub-keys keep their values, the others are filled.
C7_Witness ==
    /\ Loaded
    /\ exc = "none"
    /\ DocumentLoaded
    /\ DOMAIN FileDoc.obj = {"icons", "colors"}
    /\ FileDoc.obj["icons"] = [model |-> ""]
    /\ FileDoc.obj["colors"] = [custom |-> "red"]
    /\ ret[1]["icons"]["model"] = ""
    /\ ret[1]["icons"]["directory"] = "U+1F4C1"
    /\ ret[1]["colors"]["custom"] = "red"
    /\ ret[1]["colors"]["model"] = "blue"
    /\ ret[1]["visible_fields"] = DEFAULT_VISIBLE_FIELDS

\* C9: load, reload (and generate, which loads) leave an existing file
\* exactly as it was; the file changes only in save, or in an operation that
\* found no file and created it through ensure_exists.
C9_ReadingKeepsFile ==
    [][/\ (op' \in {"load", "reload", "generate", "ensure_exists"} /\ file # None)
            => file' = file
       /\ file' # file
            => \/ op' = "save"
               \/ /\ file = None
                  /\ op' \in {"load", "reload", "generate", "ensure_exists"}
                  /\ file' = Some(Dump(get_default_config))]_vars

\* C9 witness: a reload of an existing file whose in-memory configuration
\* differs from the document (display_mode corrected, keys merged in).
C9_Witness ==
    /\ op = "reload"
    /\ exc = "none"
    /\ file # None
    /\ FileDoc.json = "object"
    /\ DOMAIN FileDoc.obj = {"display_mode"}
    /\ FileDoc.obj["display_mode"] = "bogus"
    /\ ret[1]["display_mode"] = "compact"
    /\ ret # Some(FileDoc.obj)

\* C10: once save(c) has returned, for complete and for partial c, what
\* load() returns from the cache equals what a forced reload() returns.
C10_CacheEqualsReload ==
    [][(op = "save" /\ op' = "reload") => ret' = cache]_vars

----------------------------------------------------------------------------
(* Properties of format_compact and format_verbose, read off the text the  *)
(* call returned for arg = <<[data, config]>>.                             *)

FormatCall == op \in {"format_compact", "format_verbose"}
FormatData == arg[1].data
FormatConfig == arg[1].config
FormatOrder == FormatConfig["field_order"]
Out == output[1]

Escapes == {COLORS[c] : c \in DOMAIN COLORS}

\* text.split("\n"), no line for the empty text
RECURSIVE SplitLines(_)
SplitLines(text) ==
    IF text = <<>> THEN <<>>
    ELSE IF \E i \in DOMAIN text : text[i] = "\n"
    THEN LET i == CHOOSE i \in DOMAIN text :
                      text[i] = "\n" /\ \A h \in 1..(i - 1) : text[h] # "\n"
         IN  <<SubSeq(text, 1, i - 1)>> \o SplitLines(SubSeq(text, i + 1, Len(text)))
    ELSE <<text>>

TextNames ==
    {"current_dir", "git_branch", "model", "version", "output_style", "bogus"}

\* The piece that closes the rendering of a count: its unit.
UnitOf ==
    [context_remaining |-> {"%"}, tokens |-> {" tok"}, lines_changed |-> {" lines"},
     cost |-> {"$"}, duration |-> {"ms", "s", "m"}]

\* piece is where the value of the field name shows in a rendering of data
Shows(piece, name, data) ==
    IF name \in TextNames
    THEN name \in DOMAIN data /\ piece \in Range(data[name])
    ELSE piece \in UnitOf[name]

ShownNames == FormatterNames \cup {"bogus"}

\* The fields rendered on a line, from left to right.
FieldsOn(line, data) ==
    LET marks == SelectSeq(line, LAMBDA p : \E n \in ShownNames : Shows(p, n, data))
    IN  [i \in 1..Len(marks) |->
            CHOOSE n \in ShownNames : Shows(marks[i], n, data)]

OutLines == SplitLines(Out)
Rendered == UNION {Range(FieldsOn(OutLines[i], FormatData)) : i \in DOMAIN OutLines}

\* s is t with some elements left out
RECURSIVE IsSubseq(_, _)
IsSubseq(s, t) ==
    IF s = <<>> THEN TRUE
    ELSE IF t = <<>> THEN FALSE
    ELSE IF Head(s) = Head(t) THEN IsSubseq(Tail(s), Tail(t))
    ELSE IsSubseq(s, Tail(t))

\* The fields of one display line that are configured visible and have a
\* value in data.
ExpectedOn(line) ==
    {f \in FormatterNames :
        /\ Get(FormatConfig["visible_fields"], f, FALSE)
        /\ f \in DOMAIN FormatData
        /\ FIELD_LINE_ASSIGNMENT[f] = line}

ExpectedCounts ==
    LET counts == [line \in 1..3 |-> Cardinality(ExpectedOn(line))]
    IN  SelectSeq(counts, LAMBDA n : n > 0)

\* C11: the output of format_compact / format_verbose has at most 3 lines,
\* and the lines hold, in order, as many fields as there are fields
\* configured visible, present in data and assigned to that display line
\* (a display line with no such field makes no line).
C11_LineFieldCounts ==
    FormatCall =>
        /\ Len(OutLines) <= 3
        /\ [i \in DOMAIN OutLines |-> Len(FieldsOn(OutLines[i], FormatData))]
               = ExpectedCounts

\* C12: in compact and in verbose mode alike, two rendered fields share an
\* output line exactly when FIELD_LINE_ASSIGNMENT gives them the same
\* display line; so duration stands next to context_remaining.
C12_StaticDisplayLine ==
    FormatCall =>
        \A i, j \in DOMAIN OutLines :
            \A a \in Range(FieldsOn(OutLines[i], FormatData)) :
                \A b \in Range(FieldsOn(OutLines[j], FormatData)) :
                    (i = j) <=> (FIELD_LINE_ASSIGNMENT[a] = FIELD_LINE_ASSIGNMENT[b])

\* C13: a field of an earlier display line (Identity before Status before
\* Metrics) is never rendered on a later output line than a field of a
\* later display line, whatever field_order says, and the fields of one
\* output line stand in the order field_order lists them.
C13_LineOrderFixed ==
    FormatCall =>
        /\ \A i, j \in DOMAIN OutLines :
               i < j =>
                   \A a \in Range(FieldsOn(OutLines[i], FormatData)) :
                       \A b \in Range(FieldsOn(OutLines[j], FormatData)) :
                           FIELD_LINE_ASSIGNMENT[a] <= FIELD_LINE_ASSIGNMENT[b]
        /\ \A i \in DOMAIN OutLines :
               IsSubseq(FieldsOn(OutLines[i], FormatData), FormatOrder)

\* field_order lists a Metrics field before an Identity field, both are
\* rendered, and some line holds two fields.
C13_Witness ==
    /\ FormatCall
    /\ Len(OutLines) >= 2
    /\ \E i \in DOMAIN OutLines : Len(FieldsOn(OutLines[i], FormatData)) >= 2
    /\ \E m, n \in DOMAIN FormatOrder :
           /\ m < n
           /\ {FormatOrder[m], FormatOrder[n]} \subseteq Rendered
           /\ FIELD_LINE_ASSIGNMENT[FormatOrder[m]] = LINE_METRICS
           /\ FIELD_LINE_ASSIGNMENT[FormatOrder[n]] = LINE_IDENTITY

\* The names of field_order the formatter has to pass over.
Skipped ==
    {name \in Range(FormatOrder) :
        \/ ~Get(FormatConfig["visible_fields"], name, FALSE)
        \/ name \notin Range(VALID_FIELD_NAMES)}

\* C14: a name of field_order that visible_fields marks false, or does not
\* hold, or that is no known field name, is not rendered, whether or not
\* data holds a value for it, and the call returns.
C14_SkippedNames ==
    FormatCall => (exc = "none" /\ output # None /\ Skipped \cap Rendered = {})

\* data holds values for a hidden field, for a field missing from
\* visible_fields and for an unknown name marked visible, next to a field
\* that is rendered.
C14_Witness ==
    /\ FormatCall
    /\ Rendered # {}
    /\ \E name \in Skipped \cap DOMAIN FormatData :
           name \in DOMAIN FormatConfig["visible_fields"]
           /\ ~FormatConfig["visible_fields"][name]
    /\ \E name \in Skipped \cap DOMAIN FormatData :
           name \notin DOMAIN FormatConfig["visible_fields"]
           /\ name \in Range(VALID_FIELD_NAMES)
    /\ "bogus" \in Range(FormatOrder) \cap DOMAIN FormatData
    /\ Get(FormatConfig["visible_fields"], "bogus", FALSE)

\* C15: a visible count that data holds is rendered when it is zero;
\* context_remaining = 0 shows "0%" and, when bars are shown, a bar with
\* no filled glyph.
C15_ZeroIsRendered ==
    FormatCall =>
        \A f \in {"context_remaining", "cost", "tokens", "duration"} :
            (/\ f \in Range(FormatOrder)
             /\ Get(FormatConfig["visible_fields"], f, FALSE)
             /\ f \in DOMAIN FormatData
             /\ FormatData[f] = 0)
            => /\ f \in Rendered
               /\ f = "context_remaining" =>
                      /\ \E i \in 1..(Len(Out) - 1) :
                             Out[i] = "0" /\ Out[i + 1] = "%"
                      /\ "=" \notin Range(Out)

\* The escape sequence that is in force at piece i of text.
LastEscape(text, i) ==
    IF \E h \in 1..(i - 1) : text[h] \in Escapes
    THEN text[CHOOSE h \in 1..(i - 1) :
                  text[h] \in Escapes /\ \A g \in (h + 1)..(i - 1) : text[g] \notin Escapes]
    ELSE ""

\* C19: with colours enabled, the value of every rendered field stands in
\* the colour that config.colors holds under the field's name.
C19_FieldColour ==
    (FormatCall /\ is_color_enabled(_color_override, environ)) =>
        \A i \in DOMAIN Out :
            \A f \in FormatterNames :
                Shows(Out[i], f, FormatData)
                => LastEscape(Out, i) = COLORS[FormatConfig["colors"][f]]

----------------------------------------------------------------------------
(* Properties of colorize, for the call colorize(arg.text, arg.color_name). *)

\* C18: colorize returns the text unchanged when colours are disabled or
\* the name, whatever its case, is none of the seven palette colours, and
\* otherwise the colour's start sequence, the text and the reset sequence;
\* it raises nothing.
C18_ColorizePalette ==
    op = "colorize" =>
        /\ exc = "none"
        /\ output =
               Some(IF /\ is_color_enabled(_color_override, environ)
                       /\ lower(arg[1].color_name) \in Range(VALID_COLORS)
                    THEN <<COLORS[lower(arg[1].color_name)]>> \o arg[1].text
                             \o <<COLORS["reset"]>>
                    ELSE arg[1].text)

----------------------------------------------------------------------------
(* Properties of the duration humanizers, for arg = <<duration_ms>>,       *)
(* output = format_duration's result and ret = the field's.                *)

\* C20: DurationField.format_value and format_duration return the same
\* text: "{ms}ms" below 1000; below 60000 the seconds to the nearest tenth
\* and "s"; from 60000 on, with minutes = ms div 60000 and hours = minutes
\* div 60, "{hours}h {minutes mod 60}m" when hours > 0, else "{minutes}m".
C20_DurationHumanizers ==
    op = "format_value" =>
        LET ms == arg[1]
            minutes == ms \div 60000
            hours == minutes \div 60
        IN  /\ ret = output
            /\ ms < 1000 => output = Some(<<ToString(ms), "ms">>)
            /\ (1000 <= ms /\ ms < 60000) =>
                   \E tenths \in 10..600 :
                       /\ 100 * tenths - ms \in (-50)..50
                       /\ output = Some(<<OneDecimal(tenths), "s">>)
            /\ (ms >= 60000 /\ hours > 0) =>
                   output = Some(<<ToString(hours), "h ", ToString(minutes % 60), "m">>)
            /\ (ms >= 60000 /\ hours = 0) => output = Some(<<ToString(minutes), "m">>)

\* 59999 ms came out as "60.0s" from both.
C20_Witness ==
    /\ op = "format_value"
    /\ arg = Some(59999)
    /\ output = Some(<<"60.0", "s">>)
    /\ ret = output

----------------------------------------------------------------------------
(* Properties of StatusLine.generate and the colour state *)

Generated == op = "generate" /\ exc = "none" /\ output # None

\* C16: when NO_COLOR is set, to any value and also to the empty string, at
\* the time StatusLine.generate runs, the text it returns holds no ANSI
\* escape sequence, whatever enable_colors is and also inside the git
\* status indicators and the PR status that the collectors produced.
C16_NoColorNoEscape ==
    (Generated /\ environ # None) => Range(output[1]) \cap Escapes = {}

\* NO_COLOR is the empty string, the configuration enables colours, and
\* generate returned a text that shows fields.  (No text generate returns
\* shows git status indicators or a PR status: get_pr_status raises in every
\* workspace that has a branch.)
C16_Witness ==
    /\ Generated
    /\ environ = Some("")
    /\ cache # None
    /\ cache[1]["enable_colors"]
    /\ Len(output[1]) > 1

\* C17: in any sequence of StatusLine.generate calls of one process, colours
\* are enabled during a call exactly when the configuration of that call
\* has enable_colors true and NO_COLOR is unset at that time, so that no
\* earlier call that ran with colours disabled has an effect.
C17_ColoursPerCall ==
    Generated =>
        (is_color_enabled(_color_override, environ)
             <=> (cache[1]["enable_colors"] /\ environ = None))

----------------------------------------------------------------------------
(* Properties of the progress bar *)

\* text with its escape sequences removed
Plain(text) == SelectSeq(text, LAMBDA piece : piece \notin Escapes)

\* "[" then filled glyphs then empty glyphs then "]"
BarOf(filled_count, width) ==
    <<"[">> \o Repeat("=", filled_count) \o Repeat("-", width - filled_count)
        \o <<"]">>

ExpectedBar ==
    IF arg[1].show_progress_bars
    THEN BarOf((arg[1].percentage * arg[1].width) \div 100, arg[1].width)
    ELSE <<>>

\* C21: for every percent in 0..100 and every width in 5..50 the progress
\* bar, with show_progress_bars true, is an opening bracket,
\* floor(percent * width / 100) filled glyphs, width minus that many empty
\* glyphs and a closing bracket; with show_progress_bars false it is the
\* empty string.  Both implementations are held to it.
C21_ProgressBarFloor ==
    /\ op \in {"format_progress_bar", "_format_progress_bar"} =>
           Plain(output[1]) = ExpectedBar
    /\ op = "_format_progress_bar" => Plain(ret[1]) = ExpectedBar

----------------------------------------------------------------------------
(* Properties of the rendering of one field, for the field arg.name *)

FieldIcon ==
    Get(arg[1].config["icons"], create_field_registry[arg[1].name].icon_key, "")

IconGlyphs == {DEFAULT_ICONS[k] : k \in DOMAIN DEFAULT_ICONS}

\* text holds no icon glyph and its first character is not a space
StartsWithoutIcon(text) ==
    /\ Range(text) \cap IconGlyphs = {}
    /\ text # <<>> => Plain(text)[1] \notin {" ", "  "}

\* C22: when the icon of a field is the empty string or its key is missing
\* from the icons map, the rendering of the field holds no icon glyph and
\* starts with the colourised value (compact) or label (verbose), without a
\* leading space; this holds for every field, context_remaining included.
C22_EmptyIconNoSpace ==
    FieldIcon = "" =>
        /\ op \in {"format", "format_one"} => StartsWithoutIcon(output[1])
        /\ op = "format_one" => StartsWithoutIcon(ret[1])

\* The label texts, as the label tables hold them and with the capitals the
\* compact rendering of the percentage gives them.
LabelTexts ==
    {FIELD_LABELS[k] : k \in DOMAIN FIELD_LABELS} \cup {labels[k] : k \in DOMAIN labels}
    \cup {"Context Remaining:", "Context Remaining: "}

\* In text the percentage stands right after the icon and its space, or
\* first.
PercentFirst(text, percentage) ==
    \E i \in 1..(Len(text) - 1) :
        /\ text[i] = ToString(percentage)
        /\ text[i + 1] = "%"
        /\ \/ i = 1
           \/ i = 3 /\ text[1] \in IconGlyphs /\ text[2] = " "

\* text, a compact rendering of the field name, holds no label and shows
\* the percentage as "{percent}%"
CompactWithoutLabel(text) ==
    /\ Range(text) \cap LabelTexts = {}
    /\ (arg[1].name = "context_remaining" /\ text # <<>>) =>
           PercentFirst(Plain(text), arg[1].data["context_remaining"])

\* C23: in compact mode the rendering of a field holds its icon, its value
\* and, for the percentage field, its bar: no label text appears, and the
\* compact text of context_remaining is "{percent}%".
C23_CompactHasNoLabel ==
    ~arg[1].is_verbose_mode =>
        /\ op \in {"format", "format_one"} => CompactWithoutLabel(output[1])
        /\ op = "format_one" => CompactWithoutLabel(ret[1])

----------------------------------------------------------------------------
(* Properties of main, for the text arg read from stdin *)

\* C24: whenever the text read from stdin is no usable JSON document
\* (unparseable, or JSON whose top level is no object), main ends the
\* process with a non-zero status and nothing written to stdout, and no
\* exception leaves main unhandled; when it succeeds it has written the
\* status line to stdout exactly once and the process ends normally.
C24_MainExitStatus ==
    op = "main" =>
        /\ exit_status # None
        /\ exc \in {"none", "SystemExit"}
        /\ arg[1].json # "object" => (exit_status[1] # 0 /\ stdout = <<>>)
        /\ exc = "none" =>
               /\ exit_status = Some(0)
               /\ Len(stdout) = 1
               /\ stdout[1][Len(stdout[1])] = "\n"
        /\ exc # "none" => stdout = <<>>

\* main read a JSON array: generate raised AttributeError, and the process
\* ended with status 1 and an empty stdout.
C24_Witness ==
    /\ op = "main"
    /\ arg[1].json = "array"
    /\ exc = "SystemExit"
    /\ exit_status = Some(1)
    /\ stdout = <<>>

----------------------------------------------------------------------------
(* Properties of the lookup of the field arg.name *)

\* C25: StatusLineFormatter.get_field(name) raises FieldNotFoundError whose
\* field_name is name when the registry has no field of that name and
\* returns the field definition when it has one; the same unknown name in
\* the field_order that format walks through is skipped, raises nothing and
\* leaves no trace in the text.
C25_GetFieldRaises ==
    LET name == arg[1].name
        known == name \in DOMAIN create_field_registry
    IN  /\ (op = "get_field" /\ ~known) =>
               (exc = "FieldNotFoundError" /\ ret[1].field_name = name)
        /\ (op = "get_field" /\ known) =>
               (exc = "none" /\ ret = Some(create_field_registry[name])
                    /\ ret[1].name = name)
        /\ (op = "format" /\ ~known) =>
               /\ exc = "none"
               /\ output # None
               /\ name \in DOMAIN arg[1].data =>
                      Range(output[1]) \cap Range(arg[1].data[name]) = {}

\* get_field("bogus") raised FieldNotFoundError, and format then rendered
\* data that holds a value under "bogus" without it.
C25_Witness ==
    /\ op = "format"
    /\ arg[1].name = "bogus"
    /\ "bogus" \in DOMAIN arg[1].data
    /\ ret # None
    /\ ret[1].field_name = "bogus"
    /\ exc = "none"
    /\ output # Some(<<>>)

----------------------------------------------------------------------------
(* Properties of the collectors.                                           *)

CollectorCalls == {"get_git_branch", "get_git_status", "get_pr_status"}

\* C26: get_git_branch, get_git_status and get_pr_status return a string
\* and raise nothing, whatever the subprocess calls and the file read end
\* with: a non-zero exit status, a timeout, a missing executable, an
\* unreadable file, or output that parses but has not the expected shape.
C26_CollectorsNeverRaise ==
    op \in CollectorCalls => (exc = "none" /\ output # None)

----------------------------------------------------------------------------
(* Properties of the derived rates.                                        *)

Extracted == op \in {"_extract_cost", "extract"}

HasTotalCost ==
    "cost" \in DOMAIN arg[1] /\ "total_cost_usd" \in DOMAIN arg[1]["cost"]

DurationPositive ==
    /\ "cost" \in DOMAIN arg[1]
    /\ "total_duration_ms" \in DOMAIN arg[1]["cost"]
    /\ arg[1]["cost"]["total_duration_ms"] > 0

\* C27: the extracted data holds cost_per_hour exactly when the input has a
\* total cost, any number and also 0, and a total duration greater than 0;
\* it holds tokens_per_minute exactly when a tokens value was extracted and
\* the total duration is greater than 0.
C27_RatesWhenComputable ==
    Extracted =>
        /\ "cost_per_hour" \in DOMAIN ret[1] <=> (HasTotalCost /\ DurationPositive)
        /\ "tokens_per_minute" \in DOMAIN ret[1]
               <=> ("tokens" \in DOMAIN ret[1] /\ DurationPositive)

----------------------------------------------------------------------------
(* Properties of the text with and without colours.                        *)

\* C28: for the same data, configuration and mode, with data values that
\* hold no escape sequence, the text produced with colours enabled equals,
\* once its escape sequences are removed, the text produced with colours
\* disabled.
C28_ColorsOnlyAddEscapes ==
    (ret # None /\ output # None) => Plain(ret[1]) = output[1]

\* Both texts were produced, and the one with colours holds escape sequences
\* around a progress bar or next to an icon.
C28_Witness ==
    /\ ret # None
    /\ output # None
    /\ Range(ret[1]) \cap Escapes # {}
    /\ Range(output[1]) \cap {"[", "U+1F4B0"} # {}

----------------------------------------------------------------------------
(* Properties of save and its argument.                                    *)

\* C29: save(c) leaves the dict c it was given as it was: after the call
\* the caller's dict holds the same keys and the same values, nested ones
\* included, as before the call.
C29_SaveKeepsArgument ==
    [][op' = "save" => arg' = arg]_vars

----------------------------------------------------------------------------
(* Properties of the default configuration.                                *)

\* C30: validate(get_default_config()) equals get_default_config(); every
\* name of the default field_order is a known field name, every known field
\* name occurs in it exactly once, and every default colour is a colour of
\* the palette.
C30_DefaultIsFixedPoint ==
    (Validated /\ ArgCfg = get_default_config) =>
        /\ RetCfg = get_default_config
        /\ ValidateWarnings(ArgCfg) = {}
        /\ Range(RetCfg["field_order"]) = KnownFields
        /\ Len(RetCfg["field_order"]) = Cardinality(KnownFields)
        /\ \A field \in DOMAIN RetCfg["colors"] : RetCfg["colors"][field] \in Palette
        /\ Range(DEFAULT_FIELD_ORDER) = KnownFields
        /\ Len(DEFAULT_FIELD_ORDER) = Cardinality(KnownFields)
        /\ \A field \in DOMAIN DEFAULT_COLORS : DEFAULT_COLORS[field] \in Palette

\* validate was called on the default configuration.
C30_Witness ==
    /\ Validated
    /\ ArgCfg = get_default_config
    /\ "field_order" \in DOMAIN RetCfg
    /\ "colors" \in DOMAIN RetCfg

====
